---------------------------- MODULE Spec2Model ----------------------------
(***************************************************************************)
(* SmartNewsReader (Cloudflare worker, src/worker.js v10.7).               *)
(*                                                                         *)
(* The model follows the request pipeline of the worker: every inbound    *)
(* request runs fetch() -> handleArticle / handleSummary ->               *)
(* _getArticleData -> callAI, suspended at each await.  The two cache      *)
(* tiers (caches.default, the edge tier; env.AI_SUMMARY, the durable KV    *)
(* tier) are the only state shared between requests.  Writes handed to     *)
(* ctx.waitUntil are in flight until the runtime completes them.           *)
(*                                                                         *)
(* JavaScript strings are sequences of one-character strings.  null and    *)
(* the empty string are both the empty sequence wherever the code only     *)
(* tests truthiness.                                                       *)
(***************************************************************************)
EXTENDS Integers, Sequences, FiniteSets, TLC

(***************************************************************************)
(* Bounds of the model.                                                    *)
(***************************************************************************)
\* number of requests of one behaviour; they may overlap or follow each other
NumReq == 2
\* lines of a raw model text given to the list repair on its own
MaxLines == 4
\* seconds that pass in one step of the clock (one week)
TickSeconds == 604800
\* seconds that pass in one step of the clock of the listing route
FeedTickSeconds == 600

(***************************************************************************)
(* Program constants.                                                      *)
(***************************************************************************)
\* expirationTtl of env.AI_SUMMARY.put
KvTtl == 1209600
\* s-maxage of the rendered article response
EdgeTtl == 604800
\* length of the durable key (suffix of the base64 form)
KvKeyLen == 64
\* prompt payload budget: paragraphs.join("\n").substring(0, 35000)
PromptBudget == 35000
\* minimum length of a retained paragraph: txt.length > 15
MinParagraph == 15
\* minimum length of a retained summary line: l.length > 5
MinPoint == 5
\* cf: { cacheTtl: 600 }: seconds a fetched feed document stays cached
CfTtl == 600

(***************************************************************************)
(* String helpers (JavaScript String methods).                             *)
(***************************************************************************)
Range(s) == {s[i] : i \in DOMAIN s}


\* s.substring(a, b) with 0-based a (inclusive) and b (exclusive)
Substring(s, a, b) ==
  LET lo == IF a < 0 THEN 0 ELSE IF a > Len(s) THEN Len(s) ELSE a
      hi == IF b < 0 THEN 0 ELSE IF b > Len(s) THEN Len(s) ELSE b
      from == IF lo < hi THEN lo ELSE hi
      to == IF lo < hi THEN hi ELSE lo
  IN  SubSeq(s, from + 1, to)

\* s.startsWith(p)
StartsWith(s, p) == Len(s) >= Len(p) /\ SubSeq(s, 1, Len(p)) = p

\* s.replace(p, '') for a literal p: the first occurrence of p is removed
RECURSIVE IndexOfFrom(_, _, _)
IndexOfFrom(s, p, i) ==
  IF i + Len(p) - 1 > Len(s) THEN 0
  ELSE IF SubSeq(s, i, i + Len(p) - 1) = p THEN i
  ELSE IndexOfFrom(s, p, i + 1)

ReplaceFirst(s, p) ==
  LET i == IndexOfFrom(s, p, 1)
  IN  IF i = 0 THEN s ELSE SubSeq(s, 1, i - 1) \o SubSeq(s, i + Len(p), Len(s))

\* the white space String.prototype.trim() and the regex class \s remove
WhiteSpace == {" ", "\t", "\n", "\r", "\f"}

RECURSIVE TrimStart(_)
TrimStart(s) ==
  IF s # <<>> /\ Head(s) \in WhiteSpace THEN TrimStart(Tail(s)) ELSE s

RECURSIVE TrimEnd(_)
TrimEnd(s) ==
  IF s # <<>> /\ s[Len(s)] \in WhiteSpace THEN TrimEnd(SubSeq(s, 1, Len(s) - 1)) ELSE s

Trim(s) == TrimEnd(TrimStart(s))

\* parts.join(sep)
RECURSIVE Join(_, _)
Join(parts, sep) ==
  IF parts = <<>> THEN <<>>
  ELSE IF Len(parts) = 1 THEN parts[1]
  ELSE parts[1] \o sep \o Join(Tail(parts), sep)

\* s.split('\n')
RECURSIVE SplitAcc(_, _, _)
SplitAcc(s, sep, cur) ==
  IF s = <<>> THEN <<cur>>
  ELSE IF Head(s) = sep THEN <<cur>> \o SplitAcc(Tail(s), sep, <<>>)
  ELSE SplitAcc(Tail(s), sep, Append(cur, Head(s)))

Split(s, sep) == SplitAcc(s, sep, <<>>)

(***************************************************************************)
(* btoa: the base64 form of a Latin-1 string.                              *)
(***************************************************************************)
\* s.charCodeAt(0) of a printable ASCII character
CharCode(c) ==
  LET \* the printable ASCII characters, in code order from 32 (space) to 126 (~);
      \* code 96 (the grave accent) cannot be written in a string and is named
      Ascii ==
        <<" ", "!", "\"", "#", "$", "%", "&", "'", "(", ")", "*", "+", ",", "-", ".", "/",
          "0", "1", "2", "3", "4", "5", "6", "7", "8", "9", ":", ";", "<", "=", ">", "?",
          "@", "A", "B", "C", "D", "E", "F", "G", "H", "I", "J", "K", "L", "M", "N", "O",
          "P", "Q", "R", "S", "T", "U", "V", "W", "X", "Y", "Z", "[", "\\", "]", "^", "_",
          "GRAVE", "a", "b", "c", "d", "e", "f", "g", "h", "i", "j", "k", "l", "m", "n", "o",
          "p", "q", "r", "s", "t", "u", "v", "w", "x", "y", "z", "{", "|", "}", "~">>
  IN
               31 + (CHOOSE i \in DOMAIN Ascii : Ascii[i] = c)

B64Digit(v) ==
  LET \* the base64 alphabet, digit value 0 first
      B64Alphabet ==
        <<"A", "B", "C", "D", "E", "F", "G", "H", "I", "J", "K", "L", "M", "N", "O", "P",
          "Q", "R", "S", "T", "U", "V", "W", "X", "Y", "Z", "a", "b", "c", "d", "e", "f",
          "g", "h", "i", "j", "k", "l", "m", "n", "o", "p", "q", "r", "s", "t", "u", "v",
          "w", "x", "y", "z", "0", "1", "2", "3", "4", "5", "6", "7", "8", "9", "+", "/">>
  IN
               B64Alphabet[v + 1]

\* the four base64 characters of one group of 1, 2 or 3 bytes
B64Group(g) ==
  LET b1 == CharCode(g[1])
      b2 == IF Len(g) >= 2 THEN CharCode(g[2]) ELSE 0
      b3 == IF Len(g) >= 3 THEN CharCode(g[3]) ELSE 0
      n  == b1 * 65536 + b2 * 256 + b3
  IN  << B64Digit(n \div 262144),
         B64Digit((n \div 4096) % 64),
         IF Len(g) >= 2 THEN B64Digit((n \div 64) % 64) ELSE "=",
         IF Len(g) >= 3 THEN B64Digit(n % 64) ELSE "=" >>

RECURSIVE btoa(_)
btoa(s) ==
  IF s = <<>> THEN <<>>
  ELSE IF Len(s) <= 3 THEN B64Group(s)
  ELSE B64Group(SubSeq(s, 1, 3)) \o btoa(SubSeq(s, 4, Len(s)))

(***************************************************************************)
(* JSON.stringify / JSON.parse of an array of strings.                     *)
(***************************************************************************)
\* the escape JSON.stringify writes for one character of a string
JsonEscapeChar(c) ==
  CASE c = "\"" -> <<"\\", "\"">>
    [] c = "\\" -> <<"\\", "\\">>
    [] c = "\n" -> <<"\\", "n">>
    [] c = "\t" -> <<"\\", "t">>
    [] c = "\r" -> <<"\\", "r">>
    [] c = "\f" -> <<"\\", "f">>
    [] OTHER -> <<c>>

RECURSIVE JsonEscape(_)
JsonEscape(s) ==
  IF s = <<>> THEN <<>> ELSE JsonEscapeChar(Head(s)) \o JsonEscape(Tail(s))

\* JSON.stringify(points) for an array of strings
JsonStringify(points) ==
  LET JsonQuote(s) == <<"\"">> \o JsonEscape(s) \o <<"\"">>
  IN
  <<"[">> \o Join([i \in DOMAIN points |-> JsonQuote(points[i])], <<",">>) \o <<"]">>

\* the character an escape sequence \c stands for
JsonUnescapeChar(c) ==
  CASE c = "n" -> "\n"
    [] c = "t" -> "\t"
    [] c = "r" -> "\r"
    [] c = "f" -> "\f"
    [] OTHER -> c

\* the scanner of JSON.parse on an array of strings: i is the position, inStr
\* tells whether a string literal is open, cur is its text so far
RECURSIVE JsonParseFrom(_, _, _, _, _)
JsonParseFrom(t, i, inStr, cur, acc) ==
  IF i > Len(t) THEN acc
  ELSE IF ~inStr THEN
    IF t[i] = "\"" THEN JsonParseFrom(t, i + 1, TRUE, <<>>, acc)
    ELSE JsonParseFrom(t, i + 1, FALSE, cur, acc)
  ELSE IF t[i] = "\\" /\ i < Len(t) THEN
    JsonParseFrom(t, i + 2, TRUE, Append(cur, JsonUnescapeChar(t[i + 1])), acc)
  ELSE IF t[i] = "\"" THEN JsonParseFrom(t, i + 1, FALSE, <<>>, Append(acc, cur))
  ELSE JsonParseFrom(t, i + 1, TRUE, Append(cur, t[i]), acc)

\* JSON.parse(text) of a stringified array of strings
JsonParse(t) == JsonParseFrom(t, 1, FALSE, <<>>, <<>>)

(***************************************************************************)
(* _getArticleData: the list repair of the raw model text.                 *)
(***************************************************************************)
\* the character class [•\-\*\d\.\s] of the marker regex; the bullet
\* glyph U+2022 is the character named BULLET
MarkerChars ==
  {"BULLET", "-", "*", "."} \cup {"0", "1", "2", "3", "4", "5", "6", "7", "8", "9"}
    \cup WhiteSpace

\* l.replace(/^[•\-\*\d\.\s]+/, '')
RECURSIVE StripMarker(_)
StripMarker(l) ==
  IF l # <<>> /\ Head(l) \in MarkerChars THEN StripMarker(Tail(l)) ELSE l

CleanLine(l) == Trim(StripMarker(l))

\* variant: a line of exactly five characters is kept
KeepPointAtLeast(l) == Len(l) >= MinPoint

KeepPoint(l) == Len(l) > MinPoint

\* rawAIResponse.split('\n').map(...).filter(l => l.length > 5)
ParseSummary(raw) ==
  LET lines == Split(raw, "\n")
  IN  SelectSeq([i \in DOMAIN lines |-> CleanLine(lines[i])], KeepPoint)

(***************************************************************************)
(* _getArticleData: the HTMLRewriter handlers over the element stream.     *)
(* An event is [tag |-> "title", text], [tag |-> "p", text],               *)
(* [tag |-> "meta", property, name, content] or [tag |-> "img", src,       *)
(* dataSrc]; an absent attribute is the empty string.                      *)
(***************************************************************************)
\* a || b on strings
OrElse(a, b) == IF a # <<>> THEN a ELSE b

OgImage == <<"o", "g", ":", "i", "m", "a", "g", "e">>
OnTitleText(st, t) == [st EXCEPT !.pageTitle = @ \o t.text]

OnMeta(st, el) ==
  LET TwitterImage == <<"t", "w", "i", "t", "t", "e", "r", ":", "i", "m", "a", "g", "e">>
  IN
  LET prop == OrElse(el.property, el.name)
      content == el.content
  IN  IF content # <<>> /\ (prop = OgImage \/ prop = TwitterImage)
      THEN [st EXCEPT !.socialImg = content]
      ELSE st

OnImg(st, el) ==
  LET DataScheme == <<"d", "a", "t", "a", ":">>
  IN
  LET src == OrElse(el.src, el.dataSrc)
  IN  IF st.firstBodyImg = <<>> /\ src # <<>> /\ ~StartsWith(src, DataScheme)
      THEN [st EXCEPT !.firstBodyImg = src]
      ELSE st

\* variant: the text is kept as it came, untrimmed
OnParagraphTextRaw(st, t) ==
  IF Len(Trim(t.text)) > MinParagraph
  THEN [st EXCEPT !.paragraphs = Append(@, t.text)]
  ELSE st

OnParagraphText(st, t) ==
  LET txt == Trim(t.text)
  IN  IF Len(txt) > MinParagraph
      THEN [st EXCEPT !.paragraphs = Append(@, txt)]
      ELSE st

OnEvent(st, ev) ==
  CASE ev.tag = "title" -> OnTitleText(st, ev)
    [] ev.tag = "meta" -> OnMeta(st, ev)
    [] ev.tag = "img" -> OnImg(st, ev)
    [] ev.tag = "p" -> OnParagraphText(st, ev)
    [] OTHER -> st

RECURSIVE Rewrite(_, _)
Rewrite(events, st) ==
  IF events = <<>> THEN st ELSE Rewrite(Tail(events), OnEvent(st, Head(events)))

\* new HTMLRewriter().on(...).transform(res).arrayBuffer()
Extract(body) ==
  LET NoExtract == [pageTitle |-> <<>>, socialImg |-> <<>>, firstBodyImg |-> <<>>,
                    paragraphs |-> <<>>]
  IN
                 Rewrite(body, NoExtract)

DefaultTitle == <<"N", "e", "w", "s", " ", "A", "r", "t", "i", "c", "l", "e">>

\* pageTitle.trim() || "News Article"
CleanTitle(pageTitle) == OrElse(Trim(pageTitle), DefaultTitle)

(***************************************************************************)
(* _getArticleData: the durable key and the prompt.                        *)
(***************************************************************************)
HttpsScheme == <<"h", "t", "t", "p", "s", ":", "/", "/">>
\* variant: the first characters of the encoded form
KvKeyPrefix(targetUrl) == Substring(btoa(targetUrl), 0, KvKeyLen)

\* variant: the whole encoded form
KvKeyWhole(targetUrl) == btoa(targetUrl)

\* b64.substring(Math.max(0, b64.length - 64)) with b64 = btoa(targetUrl)
KvKeyOf(targetUrl) ==
  LET b64 == btoa(targetUrl)
      from == IF Len(b64) - KvKeyLen > 0 THEN Len(b64) - KvKeyLen ELSE 0
  IN  Substring(b64, from, Len(b64))

\* the prompt template; the fixed instruction lines (worker.js 182-187) are
\* the single character named INSTRUCTIONS
BuildPrompt(cleanTitle, paragraphs) ==
  LET TitleTag == <<"[", "T", "I", "T", "L", "E", "]", ":", " ">>
      DataTag == <<"[", "D", "A", "T", "A", "]", ":", " ">>
  IN
  <<"INSTRUCTIONS">> \o TitleTag \o cleanTitle \o <<"\n">> \o DataTag
    \o Substring(Join(paragraphs, <<"\n">>), 0, PromptBudget)

(***************************************************************************)
(* Rendering.  A page is the data its template embeds.                     *)
(***************************************************************************)
\* s.replace(/^https?:\/\//, '')
StripScheme(s) ==
  LET HttpScheme == <<"h", "t", "t", "p", ":", "/", "/">>
  IN
  IF StartsWith(s, HttpsScheme) THEN SubSeq(s, Len(HttpsScheme) + 1, Len(s))
  ELSE IF StartsWith(s, HttpScheme) THEN SubSeq(s, Len(HttpScheme) + 1, Len(s))
  ELSE s

ImagePrefix == <<"/", "i", "m", "a", "g", "e", "/">>

\* data.image ? `/image/${data.image.replace(/^https?:\/\//, '')}` : ""
ImageUrl(image) == IF image # <<>> THEN ImagePrefix \o StripScheme(image) ELSE <<>>

renderArticle(data) ==
  [title |-> data.title, image_url |-> data.image_url,
   summary_points |-> data.summary_points, paragraphs |-> data.paragraphs]

EscapeChar(c) ==
  CASE c = "&" -> <<"&", "a", "m", "p", ";">>
    [] c = "<" -> <<"&", "l", "t", ";">>
    [] c = ">" -> <<"&", "g", "t", ";">>
    [] OTHER -> <<c>>

\* str.replace(/&/g, '&amp;').replace(/</g, '&lt;').replace(/>/g, '&gt;')
RECURSIVE escape(_)
escape(str) == IF str = <<>> THEN <<>> ELSE EscapeChar(Head(str)) \o escape(Tail(str))

NoneMarker == <<"N", "O", "N", "E", " ", "(", "C", "A", "C", "H",
    "E", "D", " ", "O", "R", " ", "F", "E", "T", "C",
    "H", " ", "F", "A", "I", "L", "E", "D", ")">>

\* the diagnostic page: the exception message, the prompt and the raw response
renderDebugPage(err, prompt, response) ==
  [kind |-> "debug", status |-> 200,
   body |-> [message |-> err,
             prompt |-> OrElse(escape(prompt), NoneMarker),
             raw |-> OrElse(escape(response), NoneMarker)],
   cacheControl |-> "", cacheStatus |-> ""]

(***************************************************************************)
(* The environment: inbound requests, source pages, model responses.       *)
(***************************************************************************)
ArticleRoute == <<"/", "a", "r", "t", "i", "c", "l", "e", "/">>
SummaryRoute == <<"/", "s", "u", "m", "m", "a", "r", "y", "/">>

Sources ==
  LET \* host and path of the two source articles
      SourceA == <<"a", ".", "c", "o", "/", "n">>
      SourceB == <<"b", ".", "c", "o", "/", "n">>
  IN
           {SourceA, SourceB}

\* the inbound paths of the model
Paths == {route \o src : route \in {ArticleRoute, SummaryRoute}, src \in Sources}

\* the source article an inbound path names
SourceOf(path) ==
  IF StartsWith(path, SummaryRoute) THEN ReplaceFirst(path, SummaryRoute)
  ELSE ReplaceFirst(path, ArticleRoute)

\* what await fetch(targetUrl) can give: a rejection or a response
FetchOutcomes ==
  LET \* the source page of an article as served at one time
      PageOne ==
        << [tag |-> "title", text |-> <<" ", "A", "l", "p", "h", "a", " ">>],
           [tag |-> "meta", property |-> OgImage, name |-> <<>>, content |-> <<"h", "t", "t", "p", "s", ":", "/", "/", "i", ".", "c", "o", "/", "a",
          ".", "j", "p", "g">>],
           [tag |-> "img", src |-> <<"h", "t", "t", "p", ":", "/", "/", "a", ".", "c", "o", "/", "b", ".",
          "p", "n", "g">>, dataSrc |-> <<>>],
           [tag |-> "p", text |-> <<" ", " ", "A", "l", "p", "h", "a", " ", "&", " ", "<", "b", "e", "t",
          "a", ">", " ", "t", "e", "x", "t", ".", " ", " ">>],
           [tag |-> "p", text |-> <<"S", "h", "o", "r", "t", " ", "t", "e", "x", "t", ".">>],
           [tag |-> "p", text |-> <<"S", "e", "c", "o", "n", "d", " ", "p", "a", "r", "a", "g", "r", "a",
          "p", "h", ".">>] >>
      \* the page as served at another time: none of its paragraphs is longer
      \* than 15 characters
      PageNoText ==
        << [tag |-> "title", text |-> <<"B", "e", "t", "a">>],
           [tag |-> "img", src |-> <<>>, dataSrc |-> <<"/", "/", "i", ".", "c", "o", "/", "c", ".", "j", "p", "g">>],
           [tag |-> "p", text |-> <<"S", "h", "o", "r", "t", " ", "t", "e", "x", "t", ".">>] >>
  IN
  { [kind |-> "throw", ok |-> FALSE, status |-> 0, body |-> <<>>],
    [kind |-> "response", ok |-> FALSE, status |-> 404, body |-> <<>>],
    [kind |-> "response", ok |-> TRUE, status |-> 200, body |-> PageOne],
    [kind |-> "response", ok |-> TRUE, status |-> 200, body |-> PageNoText] }

RawList == <<"-", " ", "f", "i", "r", "s", "t", " ", "p", "o", "i", "n", "t", "\n",
    "*", " ", "s", "e", "c", "o", "n", "d", " ", "p", "o", "i", "n", "t",
    "\n", "1", ".", " ", "t", "h", "i", "r", "d", "\n", "s", "h", "o", "r",
    "t">>
RawDegenerate == <<"o", "k", "\n", "-", " ", "n", "/", "a">>

\* what the model endpoint can answer: a network failure, a body without
\* candidates, or a candidate with text
ModelOutcomes ==
  LET RawBullet == <<"BULLET", " ", "A", " ", "<", "b", ">", "b", "o", "l", "d", "<", "/", "b",
          ">", " ", "s", "u", "m", "m", "a", "r", "y">>
  IN
  { [kind |-> "throw", text |-> <<>>],
    [kind |-> "nocandidates", text |-> <<>>],
    [kind |-> "text", text |-> RawList],
    [kind |-> "text", text |-> RawBullet],
    [kind |-> "text", text |-> RawDegenerate] }

(***************************************************************************)
(* State.                                                                  *)
(***************************************************************************)
VARIABLES
  kv,           \* env.AI_SUMMARY: key -> [value, age], age in seconds
  edge,         \* caches.default: cache key -> [response, age]
  kvPending,    \* env.AI_SUMMARY.put calls handed to ctx.waitUntil, in flight
  edgePending,  \* cache.put calls handed to ctx.waitUntil, in flight
  pc,           \* where each request is suspended
  req,          \* the inbound request of each slot
  loc,          \* the local variables of the handlers of each request
  resp,         \* the response each request returned
  stages,       \* history: the pipeline stages each request has run, in order
  hist,         \* history of each request: what held when it arrived (it was
                \* the second request for its source within KvTtl seconds, the
                \* last answer for its path had an empty summary, the durable
                \* entry of its source had expired)
  firstAge,     \* history: seconds since the first request for a source
                \* arrived (-1: none in the last KvTtl seconds)
  lastEmpty,    \* history: the last request answered for an inbound path
                \* ended with an empty summary sequence
  lapsed,       \* history: the durable keys whose entry has expired
  repair,       \* the list repair on its own: the raw model text, the lines
                \* it was put together from, and the result once computed
  cf,           \* the cache fetch() goes through when given cf.cacheTtl:
                \* source index -> [body, age]
  feedPc,       \* where the listing request is suspended
  feedResults,  \* handleUnifiedFeed: what each source's promise settled with
  feedOrigin,   \* history: the sources whose origin the listing request reached
  feedResp,     \* the response of the listing request
  imgPc,        \* where the image request is suspended
  imgReq,       \* the inbound image request
  imgUpstream,  \* history: what the fetch of the image gave
  imgResp,      \* the response of the image request
  objPc,        \* v5.2.2 handleArticle from the model answer on: where it is
  objLoc,       \* its locals rawAIResponse, the cleaned text, aiJson
  objResp,      \* the response it returned
  objPut,       \* the cache.put calls it handed to ctx.waitUntil
  extraction,   \* the extraction on its own: the elements and text chunks
                \* of a page and, once computed, what _getArticleData keeps
  placeholder   \* v4.3 handleArticle: where it is, the rest of the page, its
                \* locals imgCounter, urlMap, output, the payload of the
                \* prompt, data, and the response

\* the state of the /article/ and /summary/ pipeline
pipelineVars == << kv, edge, kvPending, edgePending, pc, req, loc, resp, stages,
                   hist, firstAge, lastEmpty, lapsed >>

\* the state of the listing route
feedVars == << cf, feedPc, feedResults, feedOrigin, feedResp >>

\* the state of the image proxy
imageVars == << imgPc, imgReq, imgUpstream, imgResp >>

vars == << kv, edge, kvPending, edgePending, pc, req, loc, resp, stages, hist,
           firstAge, lastEmpty, lapsed, repair, cf, feedPc, feedResults,
           feedOrigin, feedResp, imgPc, imgReq, imgUpstream, imgResp,
           objPc, objLoc, objResp, objPut, extraction, placeholder >>

\* the state of the object-schema repair of v5.2.2
objectVars == << objPc, objLoc, objResp, objPut >>

\* what the steps of one route leave alone: the state of the other routes
notPipeline == << repair, feedVars, imageVars, objectVars, extraction, placeholder >>
notRepair == << pipelineVars, feedVars, imageVars, objectVars, extraction, placeholder >>
notFeed == << pipelineVars, repair, imageVars, objectVars, extraction, placeholder >>
notImage == << pipelineVars, repair, feedVars, objectVars, extraction, placeholder >>
notObject == << pipelineVars, repair, feedVars, imageVars, extraction, placeholder >>
notExtraction == << pipelineVars, repair, feedVars, imageVars, objectVars, placeholder >>
notPlaceholder == << pipelineVars, repair, feedVars, imageVars, objectVars, extraction >>

Req == 1..NumReq

NoRequest == [path |-> <<>>, search |-> <<>>]

NoLocals ==
  [targetUrl |-> <<>>, res |-> <<>>, pageTitle |-> <<>>, socialImg |-> <<>>,
   firstBodyImg |-> <<>>, paragraphs |-> <<>>, kvKey |-> <<>>, cachedSum |-> <<>>,
   summaryPoints |-> <<>>, currentPrompt |-> <<>>, rawAIResponse |-> <<>>,
   debugInfo |-> [prompt |-> <<>>, raw |-> <<>>]]

NoResponse ==
  [kind |-> "none", status |-> 0, body |-> <<>>, cacheControl |-> "",
   cacheStatus |-> ""]

\* nothing stored, nothing in flight, no request yet; paths are the inbound
\* paths requests will be made for
PipelineStart(paths) ==
  LET NoHistory == [second |-> FALSE, afterEmpty |-> FALSE, lapsed |-> FALSE]
  IN
  /\ kv = <<>>
  /\ edge = <<>>
  /\ kvPending = {}
  /\ edgePending = {}
  /\ pc = [r \in Req |-> "idle"]
  /\ req = [r \in Req |-> NoRequest]
  /\ loc = [r \in Req |-> NoLocals]
  /\ resp = [r \in Req |-> NoResponse]
  /\ stages = [r \in Req |-> <<>>]
  /\ hist = [r \in Req |-> NoHistory]
  /\ firstAge = [s \in {SourceOf(p) : p \in paths} |-> -1]
  /\ lastEmpty = [p \in paths |-> FALSE]
  /\ lapsed = {}

PipelineInit == PipelineStart(Paths)

\* no list repair under way
NoRepair == [raw |-> <<>>, lines |-> <<>>, points |-> <<>>, done |-> FALSE]

\* no listing request yet, nothing cached for the feeds
FeedInit ==
  /\ cf = <<>>
  /\ feedPc = "idle"
  /\ feedResults = <<>>
  /\ feedOrigin = {}
  /\ feedResp = NoResponse

\* no upstream answer
NoUpstream == [kind |-> "none", status |-> 0, headers |-> <<>>]

\* no image request yet
ImageInit ==
  /\ imgPc = "idle"
  /\ imgReq = NoRequest
  /\ imgUpstream = NoUpstream
  /\ imgResp = [status |-> 0, headers |-> <<>>, body |-> ""]

\* a JSON.parse that has not given a value
NoValue == [type |-> "none"]

\* no model answer yet
ObjectInit ==
  /\ objPc = "idle"
  /\ objLoc = [rawAIResponse |-> <<>>, cleaned |-> <<>>, aiJson |-> NoValue]
  /\ objResp = NoResponse
  /\ objPut = {}

\* no extraction on its own under way
NoExtraction == [events |-> <<>>, done |-> FALSE]

\* v4.3 handleArticle before its fetch: let imgCounter = 1, output = [], ...
NoPlaceholder ==
  [pc |-> "idle", page |-> <<>>, imgCounter |-> 1, urlMap |-> <<>>,
   emitted |-> <<>>, output |-> <<>>, payload |-> <<>>, data |-> NoValue,
   resp |-> [kind |-> "none", value |-> NoValue, cached |-> FALSE]]

Init ==
  /\ PipelineInit
  /\ repair = NoRepair
  /\ FeedInit
  /\ ImageInit
  /\ ObjectInit
  /\ extraction = NoExtraction
  /\ placeholder = NoPlaceholder

(***************************************************************************)
(* The cache tiers.  An entry carries its age; the runtime drops it when   *)
(* the age reaches the lifetime given at the write (expirationTtl for the  *)
(* durable tier, s-maxage for the edge tier).                              *)
(***************************************************************************)
\* await env.AI_SUMMARY.get(kvKey): the value, or null
KvRead(key) == IF key \in DOMAIN kv THEN kv[key].value ELSE <<>>

\* variant: a write does not replace an entry that is already there
KvStoreIfAbsent(key, value) ==
  [k \in DOMAIN kv \cup {key} |->
     IF k \in DOMAIN kv THEN kv[k] ELSE [value |-> value, age |-> 0]]

\* the store after env.AI_SUMMARY.put(key, value, { expirationTtl: 1209600 })
KvStore(key, value) ==
  [k \in DOMAIN kv \cup {key} |->
     IF k = key THEN [value |-> value, age |-> 0] ELSE kv[k]]

\* variant: entries written without expirationTtl
KvNeverExpires(entry) == FALSE

\* the durable entry has outlived its expirationTtl
KvExpired(entry) == entry.age >= KvTtl

\* variant: the edge lookup always misses
EdgeNeverHit(key) == FALSE

\* await cache.match(cacheKey): does the edge tier hold a response
EdgeHit(key) == key \in DOMAIN edge

\* the edge tier after cache.put(cacheKey, response)
EdgeStore(key, response) ==
  [k \in DOMAIN edge \cup {key} |->
     IF k = key THEN [response |-> response, age |-> 0] ELSE edge[k]]

\* the edge entry has outlived the s-maxage of its response
EdgeExpired(entry) == entry.age >= EdgeTtl

\* a store after `seconds` have passed
Older(store, seconds) ==
  [k \in DOMAIN store |-> [store[k] EXCEPT !.age = @ + seconds]]

\* the durable tier after `seconds` have passed: expired entries are gone
KvAged(seconds) ==
  LET older == Older(kv, seconds)
  IN  [k \in {x \in DOMAIN older : ~KvExpired(older[x])} |-> older[k]]

\* the edge tier after `seconds` have passed: expired entries are gone
EdgeAged(seconds) ==
  LET older == Older(edge, seconds)
  IN  [k \in {x \in DOMAIN older : ~EdgeExpired(older[x])} |-> older[k]]

(***************************************************************************)
(* fetch(request, env, ctx): routing.                                      *)
(***************************************************************************)
IsArticle(r) == StartsWith(req[r].path, ArticleRoute)

\* variant: the route prefix stays in the URL
TargetUrlKeepsRoute(path) == HttpsScheme \o path

\* `https://${path.replace('/article/', '')}` and the same for /summary/
TargetUrl(path) ==
  IF StartsWith(path, SummaryRoute)
  THEN HttpsScheme \o ReplaceFirst(path, SummaryRoute)
  ELSE HttpsScheme \o ReplaceFirst(path, ArticleRoute)

\* new Request(new URL(request.url).toString(), { method: "GET" })
CacheKey(request) == request.path \o request.search

\* variant: the configuration error is reported on a page with status 200
SecretErrorPage ==
  [kind |-> "secret_error", status |-> 200,
   body |-> [text |-> "Secret Error: GEMINI_API_KEY binding required."],
   cacheControl |-> "", cacheStatus |-> ""]

SecretError ==
  [kind |-> "secret_error", status |-> 500,
   body |-> [text |-> "Secret Error: GEMINI_API_KEY binding required."],
   cacheControl |-> "", cacheStatus |-> ""]

(***************************************************************************)
(* A request arrives: fetch(request, env, ctx) starts and is suspended at  *)
(* await env.GEMINI_API_KEY.get().  Slots are taken in order.              *)
(***************************************************************************)
Receive(r) ==
  /\ pc[r] = "idle"
  /\ \A q \in Req : q < r => pc[q] # "idle"
  /\ \E path \in DOMAIN lastEmpty :
       /\ req' = [req EXCEPT ![r] = [path |-> path, search |-> <<>>]]
       /\ hist' = [hist EXCEPT ![r] =
            [second |-> firstAge[SourceOf(path)] # -1,
             afterEmpty |-> lastEmpty[path],
             lapsed |-> KvKeyOf(TargetUrl(path)) \in lapsed]]
       /\ firstAge' = [firstAge EXCEPT ![SourceOf(path)] = IF @ = -1 THEN 0 ELSE @]
  /\ pc' = [pc EXCEPT ![r] = "secret"]
  /\ UNCHANGED << kv, edge, kvPending, edgePending, loc, resp, stages, lastEmpty,
                  lapsed >>

\* the request returns `response`; st are the stages it ran in this step and
\* l its locals
Answer(r, response, st, l, empty) ==
  /\ resp' = [resp EXCEPT ![r] = response]
  /\ pc' = [pc EXCEPT ![r] = "done"]
  /\ stages' = [stages EXCEPT ![r] = @ \o st]
  /\ loc' = [loc EXCEPT ![r] = l]
  /\ lastEmpty' = [lastEmpty EXCEPT ![req[r].path] = empty]

\* variant: /article/ is dispatched past the edge lookup
GetSecretSkipsEdge(r) ==
  /\ pc[r] = "secret"
  /\ \E bound \in BOOLEAN :
       IF ~bound
       THEN /\ Answer(r, SecretError, <<"Respond">>, loc[r], FALSE)
       ELSE /\ pc' = [pc EXCEPT ![r] = "fetch"]
            /\ loc' = [loc EXCEPT ![r].targetUrl = TargetUrl(req[r].path)]
            /\ UNCHANGED << resp, stages, lastEmpty >>
  /\ UNCHANGED << kv, edge, kvPending, edgePending, req, hist, firstAge, lapsed >>

\* apiKey = await env.GEMINI_API_KEY.get(), then the dispatch on the path
GetSecret(r) ==
  /\ pc[r] = "secret"
  /\ \E bound \in BOOLEAN :
       IF ~bound
       THEN /\ Answer(r, SecretError, <<"Respond">>, loc[r], FALSE)
       ELSE /\ pc' = [pc EXCEPT ![r] = IF IsArticle(r) THEN "match" ELSE "fetch"]
            /\ loc' = [loc EXCEPT ![r].targetUrl = TargetUrl(req[r].path)]
            /\ UNCHANGED << resp, stages, lastEmpty >>
  /\ UNCHANGED << kv, edge, kvPending, edgePending, req, hist, firstAge, lapsed >>

(***************************************************************************)
(* handleArticle / handleSummary around _getArticleData.                   *)
(***************************************************************************)
\* variant: the result carries the summary only, nothing of the extraction
ArticleDataSummaryOnly(l) ==
  [title |-> DefaultTitle,
   paragraphs |-> <<>>,
   image |-> <<>>,
   summary_points |-> l.summaryPoints,
   debug |-> [prompt |-> l.currentPrompt, raw |-> l.rawAIResponse]]

\* the value _getArticleData returns
ArticleData(l) ==
  [title |-> CleanTitle(l.pageTitle),
   paragraphs |-> l.paragraphs,
   image |-> OrElse(l.socialImg, l.firstBodyImg),
   summary_points |-> l.summaryPoints,
   debug |-> [prompt |-> l.currentPrompt, raw |-> l.rawAIResponse]]

\* finalRes of handleArticle
ArticleResponse(data) ==
  [kind |-> "article", status |-> 200,
   body |-> renderArticle([title |-> data.title,
                           image_url |-> ImageUrl(data.image),
                           summary_points |-> data.summary_points,
                           paragraphs |-> data.paragraphs]),
   cacheControl |-> "public, s-maxage=604800", cacheStatus |-> ""]

\* the response of handleSummary
SummaryResponse(data) ==
  [kind |-> "summary", status |-> 200,
   body |-> [json |-> JsonStringify(data.summary_points)],
   cacheControl |-> "", cacheStatus |-> ""]

\* hitRes of handleArticle
HitResponse(cachedResponse) == [cachedResponse EXCEPT !.cacheStatus = "HIT"]

\* variant: handleArticle issues no cache.put
ArticleEdgeWritesNone(r, finalRes) == {}

\* the cache.put calls handleArticle hands to ctx.waitUntil after rendering
ArticleEdgeWrites(r, finalRes) == {[key |-> CacheKey(req[r]), response |-> finalRes]}

\* variant: the catch block caches the page it returns
CaughtEdgeWritesPage(r, page) == {[key |-> CacheKey(req[r]), response |-> page]}

\* the cache.put calls issued by the catch block
CaughtEdgeWrites(r, page) == {}

\* variant: an empty summary is an exception
ReturnDataOrFail(r, l, st, empty) ==
  LET data == ArticleData(l)
  IN  IF empty
      THEN LET page == renderDebugPage("Empty summary", l.debugInfo.prompt,
                                       l.debugInfo.raw)
           IN  /\ Answer(r, page, st \o <<"Fail">>, l, FALSE)
               /\ UNCHANGED edgePending
      ELSE IF IsArticle(r)
      THEN LET finalRes == ArticleResponse(data)
           IN  /\ Answer(r, finalRes, st \o <<"Render", "EdgeWrite", "Respond">>,
                         [l EXCEPT !.debugInfo = data.debug], empty)
               /\ edgePending' = edgePending \cup ArticleEdgeWrites(r, finalRes)
      ELSE /\ Answer(r, SummaryResponse(data), st \o <<"Respond">>, l, empty)
           /\ UNCHANGED edgePending

\* _getArticleData returned: the rest of the try block of the handler
ReturnData(r, l, st, empty) ==
  LET data == ArticleData(l)
  IN  IF IsArticle(r)
      THEN LET finalRes == ArticleResponse(data)
           IN  /\ Answer(r, finalRes, st \o <<"Render", "EdgeWrite", "Respond">>,
                         [l EXCEPT !.debugInfo = data.debug], empty)
               /\ edgePending' = edgePending \cup ArticleEdgeWrites(r, finalRes)
      ELSE /\ Answer(r, SummaryResponse(data), st \o <<"Respond">>, l, empty)
           /\ UNCHANGED edgePending

\* _getArticleData threw: the catch block of the handler
Caught(r, message, l, st) ==
  LET page == renderDebugPage(message, l.debugInfo.prompt, l.debugInfo.raw)
  IN  /\ Answer(r, page, st \o <<"Fail">>, l, FALSE)
      /\ edgePending' = edgePending \cup CaughtEdgeWrites(r, page)

\* await cache.match(cacheKey) in handleArticle
EdgeMatch(r) ==
  /\ pc[r] = "match"
  /\ IF EdgeHit(CacheKey(req[r]))
     THEN Answer(r, HitResponse(edge[CacheKey(req[r])].response),
                 <<"EdgeRead", "Respond">>, loc[r], FALSE)
     ELSE /\ pc' = [pc EXCEPT ![r] = "fetch"]
          /\ stages' = [stages EXCEPT ![r] = Append(@, "EdgeRead")]
          /\ UNCHANGED << resp, loc, lastEmpty >>
  /\ UNCHANGED << kv, edge, kvPending, edgePending, req, hist, firstAge, lapsed >>

\* variant: the status of the response is not looked at
FetchErrorIgnoresStatus(out) ==
  IF out.kind = "throw" THEN "fetch failed" ELSE ""

\* the message of the exception that await fetch(targetUrl) and the res.ok
\* test raise for an outcome, "" when they raise none
FetchError(out) ==
  IF out.kind = "throw" THEN "fetch failed"
  ELSE IF ~out.ok THEN "Fetch Exception: HTTP 404"
  ELSE ""

(***************************************************************************)
(* _getArticleData.                                                        *)
(***************************************************************************)
\* const res = await fetch(targetUrl, ...); if (!res.ok) throw ...; then
\* await new HTMLRewriter()....transform(res).arrayBuffer(), the durable key
\* and the start of env.AI_SUMMARY.get(kvKey).  The two awaits touch nothing
\* but the locals of the request and are one step.
FetchSource(r) ==
  /\ pc[r] = "fetch"
  /\ \E out \in FetchOutcomes :
       IF FetchError(out) # ""
       THEN Caught(r, FetchError(out), loc[r], <<"Fetch">>)
       ELSE   LET ex == Extract(out.body)
              IN  /\ loc' = [loc EXCEPT ![r] =
                       [@ EXCEPT !.res = out.body,
                                 !.pageTitle = ex.pageTitle,
                                 !.socialImg = ex.socialImg,
                                 !.firstBodyImg = ex.firstBodyImg,
                                 !.paragraphs = ex.paragraphs,
                                 !.kvKey = KvKeyOf(loc[r].targetUrl)]]
                  /\ pc' = [pc EXCEPT ![r] = "kvget"]
                  /\ stages' = [stages EXCEPT ![r] = @ \o <<"Fetch", "Extract">>]
                  /\ UNCHANGED << resp, lastEmpty, edgePending >>
  /\ UNCHANGED << kv, edge, kvPending, req, hist, firstAge, lapsed >>

\* const cachedSum = await env.AI_SUMMARY.get(kvKey); on a hit the summary is
\* parsed and the data returned, otherwise the prompt is built and callAI starts
KvGet(r) ==
  /\ pc[r] = "kvget"
  /\ LET cachedSum == KvRead(loc[r].kvKey)
     IN  IF cachedSum # <<>>
         THEN ReturnData(r, [loc[r] EXCEPT !.cachedSum = cachedSum,
                                           !.summaryPoints = JsonParse(cachedSum)],
                         <<"KvRead">>, FALSE)
         ELSE /\ loc' = [loc EXCEPT ![r].currentPrompt =
                           BuildPrompt(CleanTitle(loc[r].pageTitle), loc[r].paragraphs)]
              /\ pc' = [pc EXCEPT ![r] = "callAI"]
              /\ stages' = [stages EXCEPT ![r] = @ \o <<"KvRead", "Prompt">>]
              /\ UNCHANGED << resp, lastEmpty, edgePending >>
  /\ UNCHANGED << kv, edge, kvPending, req, hist, firstAge, lapsed >>

\* variant: the write is issued whatever the length of the sequence
SummaryKvWritesAlways(r, kvKey, summaryPoints) ==
  {[by |-> r, key |-> kvKey, value |-> JsonStringify(summaryPoints)]}

\* the env.AI_SUMMARY.put calls handed to ctx.waitUntil after the repair
SummaryKvWrites(r, kvKey, summaryPoints) ==
  IF Len(summaryPoints) > 0
  THEN {[by |-> r, key |-> kvKey, value |-> JsonStringify(summaryPoints)]}
  ELSE {}

\* rawAIResponse = await this.callAI(currentPrompt, apiKey), the repair, the
\* durable write and the return
CallAI(r) ==
  /\ pc[r] = "callAI"
  /\ \E out \in ModelOutcomes :
       CASE out.kind = "throw" ->
              /\ Caught(r, "fetch failed", loc[r], <<"Model">>)
              /\ UNCHANGED kvPending
         [] out.kind = "nocandidates" ->
              /\ Caught(r, "Cannot read properties of undefined (reading '0')",
                        loc[r], <<"Model">>)
              /\ UNCHANGED kvPending
         [] OTHER ->
              LET summaryPoints == ParseSummary(out.text)
                  writes == SummaryKvWrites(r, loc[r].kvKey, summaryPoints)
              IN  /\ kvPending' = kvPending \cup writes
                  /\ ReturnData(r, [loc[r] EXCEPT !.rawAIResponse = out.text,
                                                  !.summaryPoints = summaryPoints],
                                <<"Model", "Repair">>
                                  \o (IF writes # {} THEN <<"KvWrite">> ELSE <<>>),
                                summaryPoints = <<>>)
  /\ UNCHANGED << kv, edge, req, hist, firstAge, lapsed >>

(***************************************************************************)
(* The runtime: writes in flight complete, time passes.                    *)
(***************************************************************************)
KvPutDone ==
  \E w \in kvPending :
    /\ kv' = KvStore(w.key, w.value)
    /\ kvPending' = kvPending \ {w}
    /\ UNCHANGED << edge, edgePending, pc, req, loc, resp, stages, hist,
                    firstAge, lastEmpty, lapsed >>

EdgePutDone ==
  \E w \in edgePending :
    /\ edge' = EdgeStore(w.key, w.response)
    /\ edgePending' = edgePending \ {w}
    /\ UNCHANGED << kv, kvPending, pc, req, loc, resp, stages, hist,
                    firstAge, lastEmpty, lapsed >>

\* TickSeconds pass: the entries age and the expired ones are dropped
Tick ==
  /\ DOMAIN kv # {} \/ DOMAIN edge # {} \/ \E s \in DOMAIN firstAge : firstAge[s] # -1
  /\ kv' = KvAged(TickSeconds)
  /\ edge' = EdgeAged(TickSeconds)
  /\ lapsed' = lapsed \cup (DOMAIN kv \ DOMAIN kv')
  /\ firstAge' = [s \in DOMAIN firstAge |->
       IF firstAge[s] = -1 \/ firstAge[s] + TickSeconds >= KvTtl THEN -1
       ELSE firstAge[s] + TickSeconds]
  /\ UNCHANGED << kvPending, edgePending, pc, req, loc, resp, stages, hist,
                  lastEmpty >>

PipelineNext ==
  \/ \E r \in Req : Receive(r)
  \/ \E r \in Req : GetSecret(r)
  \/ \E r \in Req : EdgeMatch(r)
  \/ \E r \in Req : FetchSource(r)
  \/ \E r \in Req : KvGet(r)
  \/ \E r \in Req : CallAI(r)
  \/ KvPutDone
  \/ EdgePutDone
  \/ Tick

Next == PipelineNext /\ UNCHANGED notPipeline

Spec == Init /\ [][Next]_vars

(***************************************************************************)
(* The durable tier under long source URLs: /summary/ requests for a short *)
(* URL and for URLs whose base64 form is longer than the key.              *)
(***************************************************************************)
KeyPaths ==
  LET Short == <<"a", ".", "c", "o", "/", "n">>
      \* two URLs that differ in one early path segment
      LongOne == <<"a", ".", "c", "o", "/", "1", "/", "w", "o", "r", "l", "d", "/", "2",
        "0", "2", "4", "/", "1", "1", "/", "0", "1", "/", "l", "o", "n", "g",
        "-", "h", "e", "a", "d", "l", "i", "n", "e", "-", "a", "b", "o", "u",
        "t", "-", "t", "h", "e", "-", "e", "v", "e", "n", "t", "-", "0">>
      LongTwo == <<"a", ".", "c", "o", "/", "2", "/", "w", "o", "r", "l", "d", "/", "2",
        "0", "2", "4", "/", "1", "1", "/", "0", "1", "/", "l", "o", "n", "g",
        "-", "h", "e", "a", "d", "l", "i", "n", "e", "-", "a", "b", "o", "u",
        "t", "-", "t", "h", "e", "-", "e", "v", "e", "n", "t", "-", "0">>
  IN  {SummaryRoute \o src : src \in {Short, LongOne, LongTwo}}

KeyInit ==
  /\ PipelineStart(KeyPaths)
  /\ repair = NoRepair
  /\ FeedInit
  /\ ImageInit
  /\ ObjectInit
  /\ extraction = NoExtraction
  /\ placeholder = NoPlaceholder

\* /summary/ never reaches caches.default
KeyNext ==
  /\ \/ \E r \in Req : Receive(r)
     \/ \E r \in Req : GetSecret(r)
     \/ \E r \in Req : FetchSource(r)
     \/ \E r \in Req : KvGet(r)
     \/ \E r \in Req : CallAI(r)
     \/ KvPutDone
     \/ Tick
  /\ UNCHANGED notPipeline

KeySpec == KeyInit /\ [][KeyNext]_vars

\* the pipeline when the runtime keeps its promise for ctx.waitUntil: a
\* cache.put handed to it is eventually carried out
LiveSpec == Spec /\ WF_edgePending(EdgePutDone /\ UNCHANGED notPipeline)

(***************************************************************************)
(* The list repair of _getArticleData on its own, over raw texts put       *)
(* together from up to MaxLines lines.                                     *)
(***************************************************************************)
RepairLines ==
  LET LineFirst == <<"-", " ", "f", "i", "r", "s", "t", " ", "p", "o", "i", "n", "t">>
      LineSecond == <<"*", " ", "s", "e", "c", "o", "n", "d", " ", "p", "o", "i", "n", "t">>
      LineThird == <<"1", ".", " ", "t", "h", "i", "r", "d">>
      LineShort == <<"s", "h", "o", "r", "t">>
      LineSixth == <<"BULLET", " ", " ", "s", "i", "x", "t", "h", "!">>
      LineVoters == <<" ", " ", "1", "2", ".", "3", " ", "-", " ", "2", "0", "2", "4", " ",
          "v", "o", "t", "e", "r", "s", " ", " ">>
      LineEmpty == <<>>
  IN
  << LineFirst, LineSecond, LineThird, LineShort, LineSixth, LineVoters,
     LineEmpty >>

\* the sequences of 1..MaxLines lines, each line given by its index
RepairInputs ==
  UNION { [1..n -> DOMAIN RepairLines] : n \in 1..MaxLines }

RepairInit ==
  LET RawOf(ls) == Join([i \in DOMAIN ls |-> RepairLines[ls[i]]], <<"\n">>)
  IN
  /\ PipelineInit
  /\ FeedInit
  /\ ImageInit
  /\ ObjectInit
  /\ extraction = NoExtraction
  /\ placeholder = NoPlaceholder
  /\ \E ls \in RepairInputs :
       repair = [raw |-> RawOf(ls), lines |-> ls, points |-> <<>>, done |-> FALSE]

\* rawAIResponse.split('\n').map(...).filter(...)
Repair ==
  /\ ~repair.done
  /\ repair' = [repair EXCEPT !.points = ParseSummary(repair.raw), !.done = TRUE]
  /\ UNCHANGED notRepair

RepairNext == Repair

RepairSpec == RepairInit /\ [][RepairNext]_vars

(***************************************************************************)
(* handleUnifiedFeed and parseRSS: the listing route.  A feed document is   *)
(* the sequence of its <item> elements, each given by the texts the regular *)
(* expressions of parseRSS capture from it.                                 *)
(***************************************************************************)
\* new Date(pubDate).getTime() of a text that is no date
NaN == -1

Digits == <<"0", "1", "2", "3", "4", "5", "6", "7", "8", "9">>

IsDigit(c) == \E d \in DOMAIN Digits : Digits[d] = c

\* the first index at or after i of a character of the set cs, Len(s) + 1 if none
RECURSIVE IndexOfAny(_, _, _)
IndexOfAny(s, cs, i) ==
  IF i > Len(s) THEN Len(s) + 1
  ELSE IF s[i] \in cs THEN i
  ELSE IndexOfAny(s, cs, i + 1)

\* new URL(link): hostname and pathname of an absolute http(s) URL; ok is
\* FALSE where the constructor throws
ParseUrl(link) ==
  LET rest == StripScheme(link)
      hostEnd == IndexOfAny(rest, {"/", "?", "#"}, 1)
      pathEnd == IndexOfAny(rest, {"?", "#"}, hostEnd)
      path == SubSeq(rest, hostEnd, pathEnd - 1)
  IN  IF rest = link \/ hostEnd = 1
      THEN [ok |-> FALSE, hostname |-> <<>>, pathname |-> <<>>]
      ELSE [ok |-> TRUE,
            hostname |-> SubSeq(rest, 1, hostEnd - 1),
            pathname |-> IF path = <<>> THEN <<"/">> ELSE path]

EpochDomain == "feed.epochtimes.com"

\* the five sources of handleUnifiedFeed (names transliterated)
sources ==
  << [name |-> "RFI", domain |-> "www.rfi.fr", color |-> "text-red-600"],
     [name |-> "BBC", domain |-> "feeds.bbci.co.uk", color |-> "text-orange-700"],
     [name |-> "RFA", domain |-> "www.rfa.org", color |-> "text-orange-600"],
     [name |-> "Epoch", domain |-> "feed.epochtimes.com", color |-> "text-blue-600"],
     [name |-> "VOA", domain |-> "www.voachinese.com", color |-> "text-sky-800"] >>

\* the news item of one <item> element
NewsItem(item, source) ==
  LET \* the article path of an item: "#" without a link or with a link that is no
      \* URL, else /article/{hostname}{pathname}, /trad turned into /simp on bbc.com
      ArticlePath(link) ==
        LET \* s.endsWith(p)
            EndsWith(s, p) == Len(s) >= Len(p) /\ SubSeq(s, Len(s) - Len(p) + 1, Len(s)) = p
            \* s.includes(p)
            Includes(s, p) == IndexOfFrom(s, p, 1) # 0
            BbcHost == <<"b", "b", "c", ".", "c", "o", "m">>
            TradSuffix == <<"/", "t", "r", "a", "d">>
            SimpSuffix == <<"/", "s", "i", "m", "p">>
        IN
        LET u == ParseUrl(Trim(link))
            pathname == IF Includes(u.hostname, BbcHost) /\ EndsWith(u.pathname, TradSuffix)
                        THEN SubSeq(u.pathname, 1, Len(u.pathname) - Len(TradSuffix))
                               \o SimpSuffix
                        ELSE u.pathname
        IN  IF link = <<>> \/ ~u.ok THEN <<"#">>
            ELSE ArticleRoute \o u.hostname \o pathname
      \* new Date(pubDate).getTime() for the dates of the first of January 1970,
      \* "Thu, 01 Jan 1970 hh:mm:ss GMT": milliseconds since the epoch, NaN for any
      \* other text
      DateGetTime(pubDate) ==
        LET \* the two-digit number at s[k], s[k+1]
            TwoDigits(s, k) ==
              LET DigitVal(c) == (CHOOSE d \in DOMAIN Digits : Digits[d] = c) - 1
              IN  10 * DigitVal(s[k]) + DigitVal(s[k + 1])
            DatePrefix == <<"T", "h", "u", ",", " ", "0", "1", " ", "J", "a", "n", " ", "1", "9",
                "7", "0", " ">>
            DateSuffix == <<" ", "G", "M", "T">>
        IN
        LET n == Len(DatePrefix)
        IN  IF /\ Len(pubDate) = n + 8 + Len(DateSuffix)
               /\ SubSeq(pubDate, 1, n) = DatePrefix
               /\ SubSeq(pubDate, n + 9, Len(pubDate)) = DateSuffix
               /\ pubDate[n + 3] = ":" /\ pubDate[n + 6] = ":"
               /\ \A i \in {n + 1, n + 2, n + 4, n + 5, n + 7, n + 8} : IsDigit(pubDate[i])
               /\ TwoDigits(pubDate, n + 1) < 24
               /\ TwoDigits(pubDate, n + 4) < 60
               /\ TwoDigits(pubDate, n + 7) < 60
            THEN ((TwoDigits(pubDate, n + 1) * 60 + TwoDigits(pubDate, n + 4)) * 60
                    + TwoDigits(pubDate, n + 7)) * 1000
            ELSE NaN
  IN
  LET NoTitle == <<"N", "o", " ", "T", "i", "t", "l", "e">>
  IN
  [title |-> OrElse(item.title, NoTitle),
   link |-> ArticlePath(item.link),
   image |-> ImageUrl(item.media),
   source |-> source.name,
   color |-> source.color,
   timestamp |-> IF item.pubDate # <<>> THEN DateGetTime(item.pubDate) ELSE 0]

\* parseRSS(xml, source): the items in document order, without the items of
\* the Shen Yun category on feed.epochtimes.com
RECURSIVE parseRSS(_, _)
parseRSS(xml, source) ==
  IF xml = <<>> THEN <<>>
  ELSE IF source.domain = EpochDomain /\ Head(xml).category = "ShenYun"
       THEN parseRSS(Tail(xml), source)
       ELSE <<NewsItem(Head(xml), source)>> \o parseRSS(Tail(xml), source)

\* feedResults.flat()
RECURSIVE Flat(_)
Flat(lists) == IF lists = <<>> THEN <<>> ELSE Head(lists) \o Flat(Tail(lists))

\* (x.timestamp || 0)
TimeOrZero(x) == IF x.timestamp = NaN THEN 0 ELSE x.timestamp

\* variant: the operands of the subtraction the other way round
ByTimeAsc(a, b) == TimeOrZero(a) - TimeOrZero(b)

\* the comparator of the sort: negative when a goes before b
ByTimeDesc(a, b) == TimeOrZero(b) - TimeOrZero(a)

\* x put into a sorted list after the elements that do not go after it
RECURSIVE InsertSorted(_, _)
InsertSorted(sorted, x) ==
  IF sorted = <<>> THEN <<x>>
  ELSE IF ByTimeDesc(Head(sorted), x) <= 0
       THEN <<Head(sorted)>> \o InsertSorted(Tail(sorted), x)
       ELSE <<x>> \o sorted

\* Array.prototype.sort with the comparator ByTimeDesc (a stable sort)
RECURSIVE SortNews(_)
SortNews(list) ==
  IF list = <<>> THEN <<>>
  ELSE InsertSorted(SortNews(SubSeq(list, 1, Len(list) - 1)), list[Len(list)])

\* renderHome(allNews): the page, given by the cards it shows
renderHome(news) ==
  [kind |-> "home", status |-> 200,
   body |-> [i \in DOMAIN news |->
               [link |-> news[i].link, image |-> news[i].image,
                title |-> news[i].title, source |-> news[i].source,
                color |-> news[i].color, timestamp |-> news[i].timestamp]],
   cacheControl |-> "", cacheStatus |-> ""]

\* the document each source serves
FeedOf ==
  LET FeedRfi ==
        << [title |-> <<"R", "a", "i", "n">>,
            link |-> <<"h", "t", "t", "p", "s", ":", "/", "/", "w", "w", "w", ".", "r", "f",
                "i", ".", "f", "r", "/", "c", "n", "/", "a", "1", "?", "x", "=", "1">>,
            pubDate |-> <<"T", "h", "u", ",", " ", "0", "1", " ", "J", "a", "n", " ", "1", "9",
                "7", "0", " ", "0", "0", ":", "0", "5", ":", "0", "0", " ", "G", "M",
                "T">>,
            media |-> <<"h", "t", "t", "p", "s", ":", "/", "/", "i", "m", "g", ".", "r", "f",
                "i", ".", "f", "r", "/", "a", "1", ".", "j", "p", "g">>,
            category |-> ""],
           [title |-> <<"W", "i", "n", "d">>,
            link |-> <<" ", "h", "t", "t", "p", "s", ":", "/", "/", "w", "w", "w", ".", "r",
                "f", "i", ".", "f", "r", "/", "c", "n", "/", "a", "2", " ">>,
            pubDate |-> <<"T", "h", "u", ",", " ", "0", "1", " ", "J", "a", "n", " ", "1", "9",
                "7", "0", " ", "0", "0", ":", "0", "1", ":", "0", "0", " ", "G", "M",
                "T">>,
            media |-> <<>>,
            category |-> ""] >>
      FeedBbc ==
        << [title |-> <<"S", "n", "o", "w">>,
            link |-> <<"h", "t", "t", "p", "s", ":", "/", "/", "w", "w", "w", ".", "b", "b",
                "c", ".", "c", "o", "m", "/", "z", "h", "o", "n", "g", "w", "e", "n",
                "/", "b", "1", "/", "t", "r", "a", "d">>,
            pubDate |-> <<"T", "h", "u", ",", " ", "0", "1", " ", "J", "a", "n", " ", "1", "9",
                "7", "0", " ", "0", "0", ":", "0", "3", ":", "0", "0", " ", "G", "M",
                "T">>,
            media |-> <<"h", "t", "t", "p", ":", "/", "/", "i", "c", "h", "e", "f", ".", "b",
                "b", "c", "i", ".", "c", "o", ".", "u", "k", "/", "b", "1", ".", "p",
                "n", "g">>,
            category |-> ""],
           [title |-> <<>>,
            link |-> <<"w", "w", "w", ".", "b", "b", "c", ".", "c", "o", "m", "/", "b", "2">>,
            pubDate |-> <<>>,
            media |-> <<>>,
            category |-> ""] >>
      FeedRfa ==
        << [title |-> <<"H", "a", "i", "l">>,
            link |-> <<"h", "t", "t", "p", "s", ":", "/", "/", "w", "w", "w", ".", "r", "f",
                "a", ".", "o", "r", "g", "/", "c", "1">>,
            pubDate |-> <<"T", "h", "u", ",", " ", "0", "1", " ", "J", "a", "n", " ", "1", "9",
                "7", "0", " ", "0", "0", ":", "0", "5", ":", "0", "0", " ", "G", "M",
                "T">>,
            media |-> <<>>,
            category |-> ""] >>
      FeedEpoch ==
        << [title |-> <<"S", "h", "o", "w">>,
            link |-> <<"h", "t", "t", "p", "s", ":", "/", "/", "w", "w", "w", ".", "e", "p",
                "o", "c", "h", "t", "i", "m", "e", "s", ".", "c", "o", "m", "/", "d",
                "1">>,
            pubDate |-> <<"T", "h", "u", ",", " ", "0", "1", " ", "J", "a", "n", " ", "1", "9",
                "7", "0", " ", "0", "0", ":", "0", "9", ":", "0", "0", " ", "G", "M",
                "T">>,
            media |-> <<>>,
            category |-> "ShenYun"],
           [title |-> <<"F", "o", "g">>,
            link |-> <<"h", "t", "t", "p", "s", ":", "/", "/", "w", "w", "w", ".", "e", "p",
                "o", "c", "h", "t", "i", "m", "e", "s", ".", "c", "o", "m", "/", "d",
                "2">>,
            pubDate |-> <<"y", "e", "s", "t", "e", "r", "d", "a", "y">>,
            media |-> <<>>,
            category |-> "News"] >>
      FeedVoa ==
        << [title |-> <<"D", "e", "w">>,
            link |-> <<"h", "t", "t", "p", "s", ":", "/", "/", "w", "w", "w", ".", "v", "o",
                "a", "c", "h", "i", "n", "e", "s", "e", ".", "c", "o", "m", "/", "e",
                "1">>,
            pubDate |-> <<"T", "h", "u", ",", " ", "0", "1", " ", "J", "a", "n", " ", "1", "9",
                "7", "0", " ", "0", "0", ":", "0", "4", ":", "0", "0", " ", "G", "M",
                "T">>,
            media |-> <<>>,
            category |-> ""] >>
  IN
          << FeedRfi, FeedBbc, FeedRfa, FeedEpoch, FeedVoa >>

Source == DOMAIN sources

\* what await fetch(src.url) can give at the origin: a rejection, an error
\* page without items, or the feed
SourceOutcomes(i) ==
  { [kind |-> "throw", status |-> 0, body |-> <<>>],
    [kind |-> "response", status |-> 503, body |-> <<>>],
    [kind |-> "response", status |-> 200, body |-> FeedOf[i]] }

\* fetch(request, env, ctx) receives a request for "/"
FeedReceive ==
  /\ feedPc \in {"idle", "done"}
  /\ feedPc' = "secret"
  /\ feedResults' = <<>>
  /\ feedOrigin' = {}
  /\ feedResp' = NoResponse
  /\ UNCHANGED << cf, notFeed >>

\* apiKey = await env.GEMINI_API_KEY.get(), then handleUnifiedFeed starts a
\* promise for every source
FeedGetSecret ==
  LET \* a source's promise that has not settled
      Pending == [settled |-> FALSE, failed |-> FALSE, items |-> <<>>]
  IN
  /\ feedPc = "secret"
  /\ \E bound \in BOOLEAN :
       IF ~bound
       THEN /\ feedPc' = "done"
            /\ feedResp' = SecretError
            /\ UNCHANGED feedResults
       ELSE /\ feedPc' = "fanout"
            /\ feedResults' = [i \in Source |-> Pending]
            /\ UNCHANGED feedResp
  /\ UNCHANGED << cf, feedOrigin, notFeed >>

\* the promise of source i settles: fetch(src.url, { cf: { cacheTtl: 600 } })
\* answers from its cache or from the origin, the text is parsed, and a
\* rejection is caught and gives no items
SourceSettle(i) ==
  LET \* a feed document is served from the cache of fetch() until it is CfTtl old
      CfFresh(j) == j \in DOMAIN cf
  IN
  /\ feedPc = "fanout"
  /\ ~feedResults[i].settled
  /\ IF CfFresh(i)
     THEN /\ feedResults' = [feedResults EXCEPT ![i] =
                [settled |-> TRUE, failed |-> FALSE,
                 items |-> parseRSS(cf[i].body, sources[i])]]
          /\ UNCHANGED << cf, feedOrigin >>
     ELSE \E out \in SourceOutcomes(i) :
            /\ feedOrigin' = feedOrigin \cup {i}
            /\ IF out.kind = "throw"
               THEN /\ feedResults' = [feedResults EXCEPT ![i] =
                          [settled |-> TRUE, failed |-> TRUE, items |-> <<>>]]
                    /\ UNCHANGED cf
               ELSE /\ feedResults' = [feedResults EXCEPT ![i] =
                          [settled |-> TRUE, failed |-> out.status # 200,
                           items |-> parseRSS(out.body, sources[i])]]
                    /\ cf' = IF out.status = 200
                             THEN [k \in DOMAIN cf \cup {i} |->
                                     IF k = i THEN [body |-> out.body, age |-> 0]
                                     ELSE cf[k]]
                             ELSE cf
  /\ UNCHANGED << feedPc, feedResp, notFeed >>

\* variant: the listing is rendered as soon as one source has settled
FeedJoinEarly ==
  /\ feedPc = "fanout"
  /\ \E i \in Source : feedResults[i].settled
  /\ feedResp' = renderHome(SortNews(Flat([i \in Source |-> feedResults[i].items])))
  /\ feedPc' = "done"
  /\ UNCHANGED << cf, feedResults, feedOrigin, notFeed >>

\* await Promise.all(...) returns; the items are put together, sorted and rendered
FeedJoin ==
  /\ feedPc = "fanout"
  /\ \A i \in Source : feedResults[i].settled
  /\ feedResp' = renderHome(SortNews(Flat([i \in Source |-> feedResults[i].items])))
  /\ feedPc' = "done"
  /\ UNCHANGED << cf, feedResults, feedOrigin, notFeed >>

\* FeedTickSeconds pass: the cached feed documents age and expire
FeedTick ==
  LET CfExpired(entry) == entry.age >= CfTtl
  IN
  /\ cf # <<>>
  /\ cf' = LET older == Older(cf, FeedTickSeconds)
           IN  [k \in {x \in DOMAIN older : ~CfExpired(older[x])} |-> older[k]]
  /\ UNCHANGED << feedPc, feedResults, feedOrigin, feedResp, notFeed >>

FeedNext ==
  \/ FeedReceive
  \/ FeedGetSecret
  \/ \E i \in Source : SourceSettle(i)
  \/ FeedJoin
  \/ FeedTick

FeedSpec == Init /\ [][FeedNext]_vars

\* the listing when every fetch of a source eventually settles and the
\* runtime resumes the handler once Promise.all has settled.  These are
\* WF_feedVars(SourceSettle(i)) and WF_feedVars(FeedJoin): each of the two
\* actions is enabled exactly when the condition below is false and makes it
\* true, so that weak fairness of the action is that its condition holds again
\* and again.
FeedLiveSpec ==
  /\ FeedSpec
  /\ \A i \in Source : []<>(feedPc = "fanout" => feedResults[i].settled)
  /\ []<>~(feedPc = "fanout" /\ \A i \in Source : feedResults[i].settled)

(***************************************************************************)
(* handleImageProxy: the /image/ route.  Headers are a function from the    *)
(* lower-case header name to the value.                                     *)
(***************************************************************************)
ImageRoute == ImagePrefix

\* the inbound image requests: with and without a query, and one whose path
\* gives no URL
ImageRequests ==
  { [path |-> ImageRoute \o <<"i", ".", "c", "o", "/", "a", ".", "j", "p", "g">>, search |-> <<>>],
    [path |-> ImageRoute \o <<"i", ".", "c", "o", "/", "a", ".", "j", "p", "g">>, search |-> <<"?", "w", "=", "9">>],
    [path |-> ImageRoute \o <<"j", ".", "c", "o", "/", "b", ".", "p", "n", "g">>, search |-> <<>>],
    [path |-> ImageRoute, search |-> <<>>] }

\* what await fetch(targetUrl) can give: a rejection or a response
ImageOutcomes ==
  LET \* the header sets an upstream response can carry
      UpstreamHeaders ==
        { [n \in names |-> CASE n = "set-cookie" -> "sid=1"
                             [] n = "content-type" -> "image/jpeg"
                             [] OTHER -> cc] :
            names \in SUBSET {"set-cookie", "content-type", "cache-control"},
            cc \in {"no-store", "public, max-age=60"} }
  IN
  { [kind |-> "throw", status |-> 0, headers |-> <<>>] } \cup
  { [kind |-> "response", status |-> st, headers |-> h] :
      st \in {200, 304, 404, 500}, h \in UpstreamHeaders }

\* the response handleImageProxy builds from the answer of the upstream
ProxyResponse(imgRes) ==
  LET ImmutableDirective == "public, max-age=31536000, immutable"
      \* headers.set(name, value)
      HeadersSet(headers, name, value) ==
        [n \in DOMAIN headers \cup {name} |-> IF n = name THEN value ELSE headers[n]]
  IN
  LET newHeaders == IF imgRes.status = 200
                    THEN HeadersSet(imgRes.headers, "cache-control", ImmutableDirective)
                    ELSE imgRes.headers
  IN  [status |-> imgRes.status, headers |-> newHeaders, body |-> "image"]

\* fetch(request, env, ctx) receives a request for /image/...
ImageReceive ==
  /\ imgPc \in {"idle", "done"}
  /\ \E request \in ImageRequests : imgReq' = request
  /\ imgPc' = "secret"
  /\ imgUpstream' = NoUpstream
  /\ imgResp' = [status |-> 0, headers |-> <<>>, body |-> ""]
  /\ UNCHANGED notImage

\* apiKey = await env.GEMINI_API_KEY.get(), then the dispatch
ImageGetSecret ==
  /\ imgPc = "secret"
  /\ \E bound \in BOOLEAN :
       IF ~bound
       THEN /\ imgPc' = "done"
            /\ imgResp' = [status |-> 500, headers |-> <<>>, body |-> SecretError.body]
       ELSE /\ imgPc' = "proxy"
            /\ UNCHANGED imgResp
  /\ UNCHANGED << imgReq, imgUpstream, notImage >>

\* handleImageProxy: the fetch of the image and the response made of it; a
\* target that is no URL (empty host) and a rejected fetch are caught
ImageProxy ==
  LET \* new Response(null, { status: 404 })
      ProxyNotFound == [status |-> 404, headers |-> <<>>, body |-> ""]
      \* "https://" + workerUrl.pathname.replace('/image/', '') + workerUrl.search
      ImageTarget(request) ==
        HttpsScheme \o ReplaceFirst(request.path, ImageRoute) \o request.search
  IN
  /\ imgPc = "proxy"
  /\ IF ~ParseUrl(ImageTarget(imgReq)).ok
     THEN /\ imgUpstream' = [kind |-> "throw", status |-> 0, headers |-> <<>>]
          /\ imgResp' = ProxyNotFound
     ELSE \E out \in ImageOutcomes :
            /\ imgUpstream' = out
            /\ imgResp' = IF out.kind = "throw" THEN ProxyNotFound
                          ELSE ProxyResponse(out)
  /\ imgPc' = "done"
  /\ UNCHANGED << imgReq, notImage >>

ImageNext ==
  \/ ImageReceive
  \/ ImageGetSecret
  \/ ImageProxy

ImageSpec == Init /\ [][ImageNext]_vars

(***************************************************************************)
(* The object-schema repair of v5.2.2 (src/unnamed/part_000): cleanJson,    *)
(* JSON.parse, and what handleArticle does with the value.                  *)
(***************************************************************************)
\* t.indexOf(c): 1-based, 0 when c does not occur
IndexOf(t, c) == IF c \in Range(t) THEN CHOOSE i \in DOMAIN t : t[i] = c /\ \A j \in 1..(i - 1) : t[j] # c ELSE 0

\* t.lastIndexOf(c): 1-based, 0 when c does not occur
LastIndexOf(t, c) == IF c \in Range(t) THEN CHOOSE i \in DOMAIN t : t[i] = c /\ \A j \in (i + 1)..Len(t) : t[j] # c ELSE 0

\* cleanJson(t): start !== -1 ? t.substring(start, end + 1) : t
cleanJson(t) ==
  LET start == IndexOf(t, "{") - 1
      end == LastIndexOf(t, "}") - 1
  IN  IF start # -1 THEN Substring(t, start, end + 1) ELSE t

\* JSON.parse: the index of the first character at or after i that is no
\* white space
RECURSIVE SkipWs(_, _)
SkipWs(t, i) ==
  IF i <= Len(t) /\ t[i] \in {" ", "\t", "\n", "\r"} THEN SkipWs(t, i + 1) ELSE i

\* the index after the run of digits that starts at i
RECURSIVE SkipDigits(_, _)
SkipDigits(t, i) ==
  IF i <= Len(t) /\ IsDigit(t[i]) THEN SkipDigits(t, i + 1) ELSE i

ParseFail == [ok |-> FALSE, val |-> NoValue, next |-> 0]

\* the literal lit stands at index i of t
LiteralAt(t, i, lit) ==
  i + Len(lit) - 1 <= Len(t) /\ SubSeq(t, i, i + Len(lit) - 1) = lit

RECURSIVE ParseValue(_, _)
RECURSIVE ParseItems(_, _, _, _)
RECURSIVE ParseMembers(_, _, _, _)

\* a string without escapes, from the opening quote at i
ParseString(t, i) ==
  LET close == IndexOfAny(t, {"\"", "\\", "\n"}, i + 1)
  IN  IF close > Len(t) \/ t[close] # "\"" THEN ParseFail
      ELSE [ok |-> TRUE,
            val |-> [type |-> "string", str |-> SubSeq(t, i + 1, close - 1)],
            next |-> close + 1]

\* an integer, from its first character at i
ParseNumber(t, i) ==
  LET from == IF t[i] = "-" THEN i + 1 ELSE i
      to == SkipDigits(t, from)
  IN  IF to = from \/ (to - from > 1 /\ t[from] = "0") THEN ParseFail
      ELSE [ok |-> TRUE,
            val |-> [type |-> "number", zero |-> \A k \in from..(to - 1) : t[k] = "0"],
            next |-> to]

\* the value that starts at i
ParseValue(t, i) ==
  LET LiteralTrue == <<"t", "r", "u", "e">>
      LiteralFalse == <<"f", "a", "l", "s", "e">>
      LiteralNull == <<"n", "u", "l", "l">>
  IN
  IF i > Len(t) THEN ParseFail
  ELSE IF t[i] = "{" THEN ParseMembers(t, SkipWs(t, i + 1), <<>>, TRUE)
  ELSE IF t[i] = "[" THEN ParseItems(t, SkipWs(t, i + 1), <<>>, TRUE)
  ELSE IF t[i] = "\"" THEN ParseString(t, i)
  ELSE IF t[i] = "-" \/ IsDigit(t[i]) THEN ParseNumber(t, i)
  ELSE IF LiteralAt(t, i, LiteralTrue)
       THEN [ok |-> TRUE, val |-> [type |-> "true"], next |-> i + 4]
  ELSE IF LiteralAt(t, i, LiteralFalse)
       THEN [ok |-> TRUE, val |-> [type |-> "false"], next |-> i + 5]
  ELSE IF LiteralAt(t, i, LiteralNull)
       THEN [ok |-> TRUE, val |-> [type |-> "null"], next |-> i + 4]
  ELSE ParseFail

\* the rest of an array: i is after the bracket or after a comma
ParseItems(t, i, acc, first) ==
  IF i > Len(t) THEN ParseFail
  ELSE IF first /\ t[i] = "]"
       THEN [ok |-> TRUE, val |-> [type |-> "array", items |-> acc], next |-> i + 1]
  ELSE LET v == ParseValue(t, i)
           k == SkipWs(t, v.next)
       IN  IF ~v.ok \/ k > Len(t) THEN ParseFail
           ELSE IF t[k] = ","
                THEN ParseItems(t, SkipWs(t, k + 1), Append(acc, v.val), FALSE)
           ELSE IF t[k] = "]"
                THEN [ok |-> TRUE,
                      val |-> [type |-> "array", items |-> Append(acc, v.val)],
                      next |-> k + 1]
           ELSE ParseFail

\* the rest of an object: i is after the brace or after a comma
ParseMembers(t, i, acc, first) ==
  IF i > Len(t) THEN ParseFail
  ELSE IF first /\ t[i] = "}"
       THEN [ok |-> TRUE, val |-> [type |-> "object", members |-> acc], next |-> i + 1]
  ELSE IF t[i] # "\"" THEN ParseFail
  ELSE LET key == ParseString(t, i)
           colon == SkipWs(t, key.next)
       IN  IF ~key.ok \/ colon > Len(t) \/ t[colon] # ":" THEN ParseFail
           ELSE LET v == ParseValue(t, SkipWs(t, colon + 1))
                    k == SkipWs(t, v.next)
                    member == [key |-> key.val.str, val |-> v.val]
                IN  IF ~v.ok \/ k > Len(t) THEN ParseFail
                    ELSE IF t[k] = ","
                         THEN ParseMembers(t, SkipWs(t, k + 1), Append(acc, member), FALSE)
                    ELSE IF t[k] = "}"
                         THEN [ok |-> TRUE,
                               val |-> [type |-> "object",
                                        members |-> Append(acc, member)],
                               next |-> k + 1]
                    ELSE ParseFail

\* JSON.parse(t): the value, or ok FALSE where it throws a SyntaxError
JsonParseAny(t) ==
  LET v == ParseValue(t, SkipWs(t, 1))
  IN  IF v.ok /\ SkipWs(t, v.next) > Len(t) THEN v ELSE ParseFail

\* value.summary: the last member of that name; undefined on values without it
GetSummary(value) ==
  LET SummaryKey == <<"s", "u", "m", "m", "a", "r", "y">>
  IN
  IF value.type = "object"
       /\ \E k \in DOMAIN value.members : value.members[k].key = SummaryKey
  THEN LET k == CHOOSE k \in DOMAIN value.members :
                  /\ value.members[k].key = SummaryKey
                  /\ \A j \in DOMAIN value.members :
                       value.members[j].key = SummaryKey => j <= k
       IN  value.members[k].val
  ELSE [type |-> "undefined"]

\* aiJson.summary || []
SummaryPointsOf(aiJson) ==
  LET \* a value that || passes over
      Falsy(value) ==
        \/ value.type \in {"undefined", "null", "false"}
        \/ value.type = "string" /\ value.str = <<>>
        \/ value.type = "number" /\ value.zero
  IN
  IF Falsy(GetSummary(aiJson)) THEN [type |-> "array", items |-> <<>>]
  ELSE GetSummary(aiJson)

\* the texts callAI can return (callAI throws on an empty text)
ObjectAnswers ==
  LET \* what a model answer can put before
      RawPrefixes ==
        { <<>>,
          <<"H", "e", "r", "e", ":", " ">>,
          <<"GRAVE", "GRAVE", "GRAVE", "j", "s", "o", "n", "\n">> }
      \* the middle of a model answer
      RawCores ==
        { <<"{", "\"", "s", "u", "m", "m", "a", "r", "y", "\"", ":", "[", "\"", "a",
            "\"", ",", "\"", "b", "\"", "]", "}">>,
          <<"{", "\"", "s", "u", "m", "m", "a", "r", "y", "\"", ":", " ", "[", "]",
            "}">>,
          <<"{", "}">>,
          <<"{", "\"", "s", "u", "m", "m", "a", "r", "y", "\"", ":", "\"", "x", "\"",
            "}">>,
          <<"{", "\"", "s", "u", "m", "m", "a", "r", "y", "\"", ":", "0", "}">>,
          <<"[", "\"", "a", "\"", "]">>,
          <<"\"", "o", "k", "\"">>,
          <<"1", "2">>,
          <<"n", "u", "l", "l">>,
          <<"t", "r", "u", "e">>,
          <<"{", "\"", "s", "u", "m", "m", "a", "r", "y", "\"", ":", "[", "\"", "a",
            "\"", "]">>,
          <<"s", "u", "m", "m", "a", "r", "y", ":", " ", "a">>,
          <<"{", "\"", "a", "\"", ":", "{", "\"", "s", "u", "m", "m", "a", "r", "y",
            "\"", ":", "[", "\"", "b", "\"", "]", "}", "}">>,
          <<"1", "2", "{">>,
          <<"}", "{">>,
          <<"{", "\"", "s", "u", "m", "m", "a", "r", "y", "\"", ":", "[", "\"", "a",
            "\"", ",", "]", "}">> }
      \* what a model answer can put after
      RawSuffixes ==
        { <<>>,
          <<"\n", "GRAVE", "GRAVE", "GRAVE">>,
          <<" ", "}">>,
          <<" ", "d", "o", "n", "e">> }
  IN
  { a \o b \o c : a \in RawPrefixes, b \in RawCores, c \in RawSuffixes }

\* rawAIResponse = await this.callAI(currentPrompt, apiKey)
ObjectReceive ==
  /\ objPc = "idle"
  /\ \E raw \in ObjectAnswers :
       objLoc' = [objLoc EXCEPT !.rawAIResponse = raw]
  /\ objPc' = "repair"
  /\ UNCHANGED << objResp, objPut, notObject >>

\* aiJson = JSON.parse(this.cleanJson(rawAIResponse)), finalData, render,
\* cache.put; any exception ends in renderDebugPage
ObjectRepair ==
  LET \* the page v5.2.2 renders, given by its summary points
      ObjectPage(points) ==
        [kind |-> "article", status |-> 200, body |-> points,
         cacheControl |-> "s-maxage=3600, public", cacheStatus |-> ""]
      \* the diagnostic page of v5.2.2 for an exception of the given kind
      ObjectDebugPage(errorKind, raw) ==
        [kind |-> "debug", status |-> 200,
         body |-> [message |-> errorKind, raw |-> raw],
         cacheControl |-> "", cacheStatus |-> ""]
  IN
  /\ objPc = "repair"
  /\ LET cleaned == cleanJson(objLoc.rawAIResponse)
         parsed == JsonParseAny(cleaned)
         points == SummaryPointsOf(parsed.val)
     IN  /\ objLoc' = [objLoc EXCEPT !.cleaned = cleaned, !.aiJson = parsed.val]
         /\ IF ~parsed.ok
            THEN /\ objResp' = ObjectDebugPage("SyntaxError", objLoc.rawAIResponse)
                 /\ UNCHANGED objPut
            ELSE IF parsed.val.type = "null" \/ points.type # "array"
            THEN /\ objResp' = ObjectDebugPage("TypeError", objLoc.rawAIResponse)
                 /\ UNCHANGED objPut
            ELSE /\ objResp' = ObjectPage(points.items)
                 /\ objPut' = objPut \cup {ObjectPage(points.items)}
  /\ objPc' = "done"
  /\ UNCHANGED notObject

ObjectNext ==
  \/ ObjectReceive
  \/ ObjectRepair

ObjectSpec == Init /\ [][ObjectNext]_vars

(***************************************************************************)
(* The extraction of _getArticleData on its own: the HTMLRewriter handlers *)
(* run over the elements and text chunks of a page.                        *)
(***************************************************************************)
\* the number of elements and text chunks of a page
MaxEvents == 3

ExtractInputs ==
  LET \* elements and text chunks a page can have
      ExtractEvents ==
        { [tag |-> "meta", property |-> <<"o", "g", ":", "i", "m", "a", "g", "e">>, name |-> <<>>,
           content |-> <<"h", "t", "t", "p", "s", ":", "/", "/", "i", ".", "c", "o", "/", "a",
                   ".", "j", "p", "g">>],
          [tag |-> "meta", property |-> <<>>, name |-> <<"t", "w", "i", "t", "t", "e", "r", ":", "i", "m", "a", "g", "e">>,
           content |-> <<"h", "t", "t", "p", "s", ":", "/", "/", "i", ".", "c", "o", "/", "t",
                   ".", "j", "p", "g">>],
          [tag |-> "meta", property |-> <<"o", "g", ":", "i", "m", "a", "g", "e">>, name |-> <<>>,
           content |-> <<>>],
          [tag |-> "meta", property |-> <<>>, name |-> <<"d", "e", "s", "c", "r", "i", "p", "t", "i", "o", "n">>,
           content |-> <<"h", "t", "t", "p", "s", ":", "/", "/", "i", ".", "c", "o", "/", "d",
                   ".", "j", "p", "g">>],
          [tag |-> "img", src |-> <<"h", "t", "t", "p", "s", ":", "/", "/", "b", ".", "c", "o", "/", "1",
                   ".", "p", "n", "g">>,
           dataSrc |-> <<>>],
          [tag |-> "img", src |-> <<"d", "a", "t", "a", ":", "i", "m", "a", "g", "e", "/", "g", "i", "f",
                   ";", "b", "a", "s", "e", "6", "4", ",", "R", "0">>,
           dataSrc |-> <<"h", "t", "t", "p", "s", ":", "/", "/", "b", ".", "c", "o", "/", "2",
                   ".", "p", "n", "g">>],
          [tag |-> "img", src |-> <<>>,
           dataSrc |-> <<"h", "t", "t", "p", "s", ":", "/", "/", "b", ".", "c", "o", "/", "3",
                   ".", "p", "n", "g">>],
          [tag |-> "img", src |-> <<"d", "a", "t", "a", ":", "i", "m", "a", "g", "e", "/", "g", "i", "f",
                   ";", "b", "a", "s", "e", "6", "4", ",", "R", "0">>,
           dataSrc |-> <<>>],
          [tag |-> "p", text |-> <<" ", " ", "A", " ", "f", "i", "r", "s", "t", " ", "l", "o", "n", "g",
                   " ", "p", "a", "r", "a", "g", "r", "a", "p", "h", ".", " ", " ">>],
          [tag |-> "p", text |-> <<"S", "i", "x", "t", "e", "e", "n", " ", "c", "h", "a", "r", "s", " ",
                   "o", "k">>],
          [tag |-> "p", text |-> <<"f", "i", "f", "t", "e", "e", "n", " ", "c", "h", "a", "r", "s", "!",
                   "!">>],
          [tag |-> "p", text |-> <<" ", "s", "h", "o", "r", "t", " ", "\n">>] }
  IN
                 UNION { [1..n -> ExtractEvents] : n \in 1..MaxEvents }

ExtractInit ==
  /\ PipelineInit
  /\ repair = NoRepair
  /\ FeedInit
  /\ ImageInit
  /\ ObjectInit
  /\ \E events \in ExtractInputs : extraction = [events |-> events, done |-> FALSE]
  /\ placeholder = NoPlaceholder

\* await new HTMLRewriter()....transform(res).arrayBuffer() and the fields of
\* the returned value that come from it
ExtractRun ==
  /\ ~extraction.done
  /\ LET ex == Extract(extraction.events)
         data == ArticleData([NoLocals EXCEPT !.pageTitle = ex.pageTitle,
                                              !.socialImg = ex.socialImg,
                                              !.firstBodyImg = ex.firstBodyImg,
                                              !.paragraphs = ex.paragraphs])
     IN  extraction' = [events |-> extraction.events, done |-> TRUE,
                        socialImg |-> ex.socialImg,
                        firstBodyImg |-> ex.firstBodyImg,
                        paragraphs |-> data.paragraphs, image |-> data.image]
  /\ UNCHANGED notExtraction

ExtractNext == ExtractRun

ExtractSpec == ExtractInit /\ [][ExtractNext]_vars

(***************************************************************************)
(* The placeholder scheme of v4.3 (src/unnamed/part_001): image URLs are    *)
(* replaced by short ids in the prompt and put back by mapBack.  A line of  *)
(* output is [text, fill]: the characters of text followed by fill further  *)
(* characters of running text, none of them white space or a line break.    *)
(***************************************************************************)
\* the budget of the payload: substring(0, 40000)
PayloadBudget == 40000

\* the decimal digits of a natural number, as template literals print it
RECURSIVE Decimal(_)
Decimal(n) ==
  IF n < 10 THEN <<Digits[n + 1]>> ELSE Decimal(n \div 10) \o <<Digits[(n % 10) + 1]>>

\* variant: the id keeps the last digit of the counter only
ImgIdLastDigit(imgCounter) == <<"I">> \o Decimal(imgCounter % 10)

\* `I${imgCounter++}`
ImgId(imgCounter) == <<"I">> \o Decimal(imgCounter)

\* variant: only a string at the top is resolved
mapBackTop(obj, urlMap) ==
  IF obj.type = "string" /\ \E i \in DOMAIN urlMap : urlMap[i].key = obj.str
  THEN [type |-> "string",
        str |-> urlMap[CHOOSE i \in DOMAIN urlMap : urlMap[i].key = obj.str].value]
  ELSE obj

\* mapBack(obj, urlMap) on the values JSON.parse gives
RECURSIVE mapBack(_, _)
mapBack(obj, urlMap) ==
  IF obj.type = "string" /\ \E i \in DOMAIN urlMap : urlMap[i].key = obj.str
  THEN [type |-> "string",
        str |-> urlMap[CHOOSE i \in DOMAIN urlMap : urlMap[i].key = obj.str].value]
  ELSE IF obj.type = "array"
  THEN [type |-> "array",
        items |-> [i \in DOMAIN obj.items |-> mapBack(obj.items[i], urlMap)]]
  ELSE IF obj.type = "object"
  THEN [type |-> "object",
        members |-> [i \in DOMAIN obj.members |->
                       [key |-> obj.members[i].key,
                        val |-> mapBack(obj.members[i].val, urlMap)]]]
  ELSE obj

\* output.join("\n").substring(0, budget), as the lines of the result: the
\* last one may be the beginning of a line of output
RECURSIVE PayloadLines(_, _)
PayloadLines(output, budget) ==
  IF output = <<>> THEN <<>>
  ELSE LET l == Head(output)
           len == Len(l.text) + l.fill
       IN  IF len >= budget
           THEN IF budget <= Len(l.text)
                THEN << [text |-> SubSeq(l.text, 1, budget), fill |-> 0] >>
                ELSE << [text |-> l.text, fill |-> budget - Len(l.text)] >>
           ELSE IF Tail(output) = <<>> THEN << l >>
           ELSE << l >> \o PayloadLines(Tail(output), budget - len - 1)

\* variant: the URL recorded is the source without its scheme
ImagePathBare(src) == StripScheme(src)

\* `/image/${src.replace(/^https?:\/\//, '')}`
ImagePath(src) == ImagePrefix \o StripScheme(src)

\* the pages of the model: a leading text chunk of a given length, a number
\* of img elements with their own URLs (the first with the relative URL I2
\* when rel holds, the second without any source attribute when gap holds,
\* the third lazy-loaded), and a short last chunk
PhPages ==
  LET Url(k) == <<"h", "t", "t", "p", "s", ":", "/", "/", "i", ".", "c", "o", "/">>
                  \o Decimal(k) \o <<".", "j", "p", "g">>
      Img(k, gap, rel) ==
        IF rel /\ k = 1 THEN [tag |-> "img", src |-> <<"I", "2">>, dataSrc |-> <<>>]
        ELSE IF gap /\ k = 2 THEN [tag |-> "img", src |-> <<>>, dataSrc |-> <<>>]
        ELSE IF k = 3 THEN [tag |-> "img", src |-> <<>>, dataSrc |-> Url(k)]
        ELSE [tag |-> "img", src |-> Url(k), dataSrc |-> <<>>]
      Lead(len) == [tag |-> "text", text |-> <<" ", "A">>, fill |-> len - 1]
      Last == [tag |-> "text", text |-> <<"e", "n", "d", ".", " ">>, fill |-> 0]
  IN  { <<Lead(len)>> \o [k \in 1..n |-> Img(k, gap, rel)] \o <<Last>> :
          n \in 0..13, len \in {15, 20, 39869, 39870}, gap \in BOOLEAN,
          rel \in BOOLEAN }

\* the values JSON.parse(cleanedJson) can give
PhAnswers ==
  { [type |-> "object", members |-> <<
      [key |-> <<"i", "m", "a", "g", "e", "_", "u", "r", "l">>,
       val |-> [type |-> "string", str |-> <<"I", "1", "2">>]],
      [key |-> <<"t", "i", "t", "l", "e">>,
       val |-> [type |-> "string", str |-> <<"T">>]],
      [key |-> <<"s", "u", "m", "m", "a", "r", "y", "_", "p", "o", "i", "n", "t", "s">>,
       val |-> [type |-> "array", items |-> <<
          [type |-> "string", str |-> <<"I", "1">>],
          [type |-> "string", str |-> <<"a">>] >>]],
      [key |-> <<"p", "a", "r", "a", "g", "r", "a", "p", "h", "s">>,
       val |-> [type |-> "array", items |-> <<
          [type |-> "string", str |-> <<"p">>],
          [type |-> "string", str |-> <<"s", "e", "e", " ", "I", "1">>] >>]] >>],
    [type |-> "object", members |-> <<
      [key |-> <<"i", "m", "a", "g", "e", "_", "u", "r", "l">>,
       val |-> [type |-> "string", str |-> <<"I", "9", "9">>]],
      [key |-> <<"I", "1">>,
       val |-> [type |-> "string", str |-> <<"I", "1">>]],
      [key |-> <<"t", "i", "t", "l", "e">>,
       val |-> [type |-> "string", str |-> <<"I", "2">>]],
      [key |-> <<"s", "u", "m", "m", "a", "r", "y", "_", "p", "o", "i", "n", "t", "s">>,
       val |-> [type |-> "array", items |-> <<>>]],
      [key |-> <<"p", "a", "r", "a", "g", "r", "a", "p", "h", "s">>,
       val |-> [type |-> "array", items |-> <<
          [type |-> "array", items |-> <<
            [type |-> "string", str |-> <<"I", "2">>],
            [type |-> "object", members |-> <<
              [key |-> <<"k">>,
               val |-> [type |-> "string", str |-> <<"I", "1">>]],
              [key |-> <<"n">>,
               val |-> [type |-> "number", zero |-> FALSE]] >>] >>],
          [type |-> "number", zero |-> TRUE],
          [type |-> "null"],
          [type |-> "true"],
          [type |-> "false"],
          [type |-> "string", str |-> <<"i", "1">>] >>]] >>],
    [type |-> "object", members |-> <<
      [key |-> <<"i", "m", "a", "g", "e", "_", "u", "r", "l">>,
       val |-> [type |-> "string", str |-> <<"I", "1">>]],
      [key |-> <<"t", "i", "t", "l", "e">>,
       val |-> [type |-> "string", str |-> <<"I", "1">>]],
      [key |-> <<"d", "e", "e", "p">>,
       val |-> [type |-> "object", members |-> <<
          [key |-> <<"a">>,
           val |-> [type |-> "object", members |-> <<
              [key |-> <<"b">>,
               val |-> [type |-> "array", items |-> <<
                  [type |-> "string", str |-> <<"I", "3">>],
                  [type |-> "array", items |-> <<
                    [type |-> "string", str |-> <<"I", "2">>] >>] >>]] >>]] >>]] >>],
    [type |-> "array", items |-> <<
      [type |-> "string", str |-> <<"I", "1">>],
      [type |-> "array", items |-> <<
        [type |-> "string", str |-> <<"I", "2">>],
        [type |-> "array", items |-> <<
          [type |-> "string", str |-> <<"I", "3">>] >>] >>] >>],
    [type |-> "string", str |-> <<"I", "1">>],
    [type |-> "number", zero |-> FALSE],
    [type |-> "null"],
    [type |-> "object", members |-> <<>>] }

PlaceholderInit ==
  /\ PipelineInit
  /\ repair = NoRepair
  /\ FeedInit
  /\ ImageInit
  /\ ObjectInit
  /\ extraction = NoExtraction
  /\ placeholder = NoPlaceholder

\* const res = await fetch(targetUrl, ...): the page arrives
PhReceive ==
  /\ placeholder.pc = "idle"
  /\ \E page \in PhPages :
       placeholder' = [placeholder EXCEPT !.pc = "rewrite", !.page = page]
  /\ UNCHANGED notPlaceholder

\* .on("img", { element(el) {...} })
PhImg ==
  LET \* urlMap.set(id, url) on a Map kept as its entries in insertion order
      MapSet(urlMap, id, url) ==
        IF \E i \in DOMAIN urlMap : urlMap[i].key = id
        THEN [i \in DOMAIN urlMap |->
                IF urlMap[i].key = id THEN [key |-> id, value |-> url] ELSE urlMap[i]]
        ELSE Append(urlMap, [key |-> id, value |-> url])
  IN
  /\ placeholder.pc = "rewrite"
  /\ placeholder.page # <<>>
  /\ Head(placeholder.page).tag = "img"
  /\ LET el == Head(placeholder.page)
         src == OrElse(el.src, el.dataSrc)
         id == ImgId(placeholder.imgCounter)
         url == ImagePath(src)
     IN  IF src # <<>>
         THEN placeholder' =
                [placeholder EXCEPT
                   !.page = Tail(@),
                   !.imgCounter = @ + 1,
                   !.urlMap = MapSet(@, id, url),
                   !.emitted = Append(@, [key |-> id, value |-> url]),
                   !.output = Append(@, [text |-> <<"[", "I", "M", "G", "]", ":", " ">> \o id,
                                         fill |-> 0])]
         ELSE placeholder' = [placeholder EXCEPT !.page = Tail(@)]
  /\ UNCHANGED notPlaceholder

\* .on("h1, p", { text(t) {...} })
PhText ==
  /\ placeholder.pc = "rewrite"
  /\ placeholder.page # <<>>
  /\ Head(placeholder.page).tag = "text"
  /\ LET t == Head(placeholder.page)
         trimmed == IF t.fill > 0 THEN [text |-> TrimStart(t.text), fill |-> t.fill]
                    ELSE [text |-> Trim(t.text), fill |-> 0]
     IN  IF Len(trimmed.text) + trimmed.fill > MinParagraph
         THEN placeholder' =
                [placeholder EXCEPT
                   !.page = Tail(@),
                   !.output = Append(@, [text |-> <<"[", "T", "E", "X", "T", "]", ":", " ">>
                                                    \o trimmed.text,
                                         fill |-> trimmed.fill])]
         ELSE placeholder' = [placeholder EXCEPT !.page = Tail(@)]
  /\ UNCHANGED notPlaceholder

\* currentPrompt = `... Data: ${output.join("\n").substring(0, 40000)}` and
\* the start of callAI
PhPrompt ==
  /\ placeholder.pc = "rewrite"
  /\ placeholder.page = <<>>
  /\ placeholder' = [placeholder EXCEPT
                       !.pc = "callAI",
                       !.payload = PayloadLines(placeholder.output, PayloadBudget)]
  /\ UNCHANGED notPlaceholder

\* callAI returns or throws; cleanJson, JSON.parse, mapBack, renderArticle,
\* cache.put; any exception ends in renderDebugPage
PhAnswer ==
  /\ placeholder.pc = "callAI"
  /\ \/ placeholder' = [placeholder EXCEPT
                          !.pc = "done",
                          !.resp = [kind |-> "debug", value |-> NoValue, cached |-> FALSE]]
     \/ \E data \in PhAnswers :
          placeholder' =
            [placeholder EXCEPT
               !.pc = "done",
               !.data = data,
               !.resp = IF data.type = "null"
                        THEN [kind |-> "debug", value |-> NoValue, cached |-> FALSE]
                        ELSE [kind |-> "article",
                              value |-> mapBack(data, placeholder.urlMap),
                              cached |-> TRUE]]
  /\ UNCHANGED notPlaceholder

PhNext ==
  \/ PhReceive
  \/ PhImg
  \/ PhText
  \/ PhPrompt
  \/ PhAnswer

PlaceholderSpec == PlaceholderInit /\ [][PhNext]_vars

(***************************************************************************)
(* Properties.                                                             *)
(***************************************************************************)
Ran(r, stage) == stage \in Range(stages[r])

\* the request returned a rendered article or a summary payload
Served(r) == pc[r] = "done" /\ resp[r].kind \in {"article", "summary"}

\* C1, as stated: a second request for a source URL made within the TTL
\* window of the first does not invoke the Model Client, and a served request
\* made after the durable entry expired invokes it again.
C1_Original ==
  \A r \in Req :
    /\ hist[r].second => ~Ran(r, "Model")
    /\ (hist[r].lapsed /\ Served(r)) => Ran(r, "Model")

C1_ReadStep(r) ==
  /\ (pc[r] = "kvget" /\ pc'[r] # "kvget") =>
       IF loc[r].kvKey \in DOMAIN kv
       THEN /\ pc'[r] = "done"
            /\ "Model" \notin Range(stages'[r])
            /\ loc'[r].summaryPoints = JsonParse(kv[loc[r].kvKey].value)
       ELSE pc'[r] = "callAI"
  /\ (pc[r] = "callAI" /\ pc'[r] # "callAI") => "Model" \in Range(stages'[r])

\* C1, amended: a request that reaches the durable read while the durable tier
\* holds an entry for its key, which is an entry written less than 14 days
\* (KvTtl seconds) before, does not invoke the Model Client and takes its
\* summary from the entry; a request that reaches the durable read when no
\* such entry exists (never written, write still in flight, or expired)
\* invokes the Model Client.
C1_DurableCache ==
  /\ [](\A k \in DOMAIN kv : kv[k].age < KvTtl)
  /\ [][\A r \in Req : C1_ReadStep(r)]_vars

\* a request that arrived after the entry of its source expired is at callAI
C1_Witness == \E r \in Req : pc[r] = "callAI" /\ hist[r].lapsed

\* C2, as stated: after a request whose validator produced an empty summary
\* sequence, the next request for the same route and URL that is served has
\* invoked the Model Client again.
C2_Original ==
  \A r \in Req : (hist[r].afterEmpty /\ Served(r)) => Ran(r, "Model")

\* C3, as stated: the diagnostic page shows the last prompt the request built
\* and the last raw model text it received, and the "none" marker only when
\* there is none.
C3_Original ==
  \A r \in Req :
    (pc[r] = "done" /\ resp[r].kind = "debug") =>
      /\ resp[r].body.prompt =
           (IF loc[r].currentPrompt = <<>> THEN NoneMarker
            ELSE escape(loc[r].currentPrompt))
      /\ resp[r].body.raw =
           (IF loc[r].rawAIResponse = <<>> THEN NoneMarker
            ELSE escape(loc[r].rawAIResponse))

C4_FailStep(r) ==
  (pc[r] # "done" /\ pc'[r] = "done" /\ resp'[r].kind = "debug") =>
    /\ edgePending' = edgePending
    /\ edge' = edge

\* C4: every response stored in the edge tier, or on its way to it, is a
\* rendered article, and a request that ends with the diagnostic page issues
\* no edge-cache write.
C4_DiagnosticNeverCached ==
  /\ [](/\ \A k \in DOMAIN edge :
             edge[k].response.kind = "article" /\ edge[k].response.status = 200
        /\ \A w \in edgePending :
             w.response.kind = "article" /\ w.response.status = 200)
  /\ [][\A r \in Req : C4_FailStep(r)]_vars

\* an /article/ request ended with the diagnostic page while the edge tier
\* holds an entry, and another one while an edge write is in flight
C4_Witness ==
  \E r \in Req :
    /\ pc[r] = "done" /\ resp[r].kind = "debug" /\ IsArticle(r)
    /\ DOMAIN edge # {}

C5_HitStep(r) ==
  (pc[r] = "match" /\ pc'[r] # "match" /\ CacheKey(req[r]) \in DOMAIN edge) =>
    /\ pc'[r] = "done"
    /\ resp'[r] = [edge[CacheKey(req[r])].response EXCEPT !.cacheStatus = "HIT"]
    /\ loc'[r] = loc[r]
    /\ stages'[r] = <<"EdgeRead", "Respond">>
    /\ UNCHANGED << kv, edge, kvPending, edgePending >>

\* C5: an /article/ request looks up the edge tier under its request URL before
\* anything else, and on a hit it returns the stored response and nothing else
\* happens: no fetch, no extraction, no durable read or write, no model call,
\* no edge write.
C5_EdgeReadThrough ==
  /\ [](\A r \in Req :
          pc[r] = "match" =>
            /\ IsArticle(r)
            /\ stages[r] = <<>>
            /\ loc[r] = [NoLocals EXCEPT !.targetUrl = TargetUrl(req[r].path)])
  /\ [][\A r \in Req : C5_HitStep(r)]_vars

\* a request was answered from the edge tier
C5_Witness ==
  \E r \in Req :
    pc[r] = "done" /\ resp[r].cacheStatus = "HIT" /\ resp[r].kind = "article"

C6_HitStep(r) ==
  (pc[r] = "kvget" /\ pc'[r] # "kvget" /\ loc[r].kvKey \in DOMAIN kv) =>
    LET fresh == Extract(loc[r].res)
        points == JsonParse(kv[loc[r].kvKey].value)
    IN  /\ stages[r] \in { <<"Fetch", "Extract">>, <<"EdgeRead", "Fetch", "Extract">> }
        /\ "Model" \notin Range(stages'[r])
        /\ kvPending' = kvPending
        /\ pc'[r] = "done"
        /\ IF IsArticle(r)
           THEN resp'[r].body =
                  [title |-> OrElse(Trim(fresh.pageTitle), DefaultTitle),
                   image_url |-> ImageUrl(OrElse(fresh.socialImg, fresh.firstBodyImg)),
                   summary_points |-> points,
                   paragraphs |-> fresh.paragraphs]
           ELSE resp'[r].body.json = JsonStringify(points)

\* C6: on a durable hit the request has fetched the source page and run the
\* extraction, it does not call the model, and its result has the title, image
\* and paragraphs of that fresh extraction and the summary points of the entry.
C6_DurableHitReExtracts == [][\A r \in Req : C6_HitStep(r)]_vars

\* an article was served from a durable hit whose page differs from the page
\* the cached summary was made from
C6_Witness ==
  \E r, q \in Req :
    /\ pc[r] = "done" /\ resp[r].kind = "article" /\ loc[r].cachedSum # <<>>
    /\ Ran(q, "KvWrite") /\ loc[q].kvKey = loc[r].kvKey
    /\ loc[q].res # loc[r].res

\* a serialized array of at least one non-empty string
C7_SummaryValue(v) ==
  LET points == JsonParse(v)
  IN  /\ Len(points) >= 1
      /\ v = JsonStringify(points)
      /\ \A i \in DOMAIN points : Len(points[i]) > 0

C7_WriteStep ==
  \A w \in kvPending' \ kvPending :
    \E r \in Req :
      /\ pc[r] = "callAI" /\ pc'[r] = "done"
      /\ w.key = loc[r].kvKey
      /\ Len(ParseSummary(loc'[r].rawAIResponse)) >= 1
      /\ w.value = JsonStringify(ParseSummary(loc'[r].rawAIResponse))

\* C7: every value of the durable tier, stored or in flight, is a serialized
\* summary-points array with at least one item, and a write is issued only by
\* a request whose repair produced at least one item.
C7_DurableContent ==
  /\ [](/\ \A k \in DOMAIN kv : C7_SummaryValue(kv[k].value)
        /\ \A w \in kvPending : C7_SummaryValue(w.value))
  /\ [][C7_WriteStep]_vars

\* the durable tier holds an entry and a request whose repair gave an empty
\* sequence was served without a write
C7_Witness ==
  /\ DOMAIN kv # {}
  /\ \E r \in Req :
       /\ Served(r) /\ loc[r].rawAIResponse # <<>> /\ loc[r].summaryPoints = <<>>
       /\ ~Ran(r, "KvWrite")

C8_PutStep ==
  \A w \in kvPending :
    kvPending' = kvPending \ {w} => kv'[w.key] = [value |-> w.value, age |-> 0]

\* C8: a request at the model call can always take its step, whatever the
\* other requests for the same source are doing, a write in flight can always
\* complete, and a completing write replaces the entry of its key by its value
\* (the last write wins).
C8_NoLocking ==
  /\ [](\A r \in Req : pc[r] = "callAI" => ENABLED CallAI(r))
  /\ [](kvPending # {} => ENABLED KvPutDone)
  /\ [][C8_PutStep]_vars

\* two requests for the same source both called the model and both wrote, the
\* summaries differ, both writes have completed with no expiry in between, and
\* the entry holds one of the two values
C8_Witness ==
  \E r, q \in Req :
    /\ r # q /\ loc[r].kvKey = loc[q].kvKey
    /\ Ran(r, "Model") /\ Ran(r, "KvWrite") /\ Ran(q, "Model") /\ Ran(q, "KvWrite")
    /\ loc[r].summaryPoints # loc[q].summaryPoints
    /\ kvPending = {} /\ lapsed = {}
    /\ loc[r].kvKey \in DOMAIN kv
    /\ kv[loc[r].kvKey].value = JsonStringify(loc[q].summaryPoints)

\* position of a stage in an order
StagePos(order, stage) == CHOOSE i \in DOMAIN order : order[i] = stage

Ordered(r, order) ==
  /\ Range(stages[r]) \subseteq Range(order)
  /\ \A i, j \in DOMAIN stages[r] :
       i < j => StagePos(order, stages[r][i]) < StagePos(order, stages[r][j])

\* C9, as stated: the stages of a request run in the order Fetch, Extract,
\* Prompt, Model, Repair, Render, Cache-write, each at most once, the edge read
\* before Fetch, the durable read before the model call, and no cache write,
\* edge or durable, before Render.
C9_Original ==
  \A r \in Req :
    /\ Ordered(r, <<"EdgeRead", "Fetch", "Extract", "KvRead", "Prompt", "Model",
                    "Repair", "Render", "KvWrite", "EdgeWrite", "Respond", "Fail">>)
    /\ (Ran(r, "KvWrite") \/ Ran(r, "EdgeWrite")) => Ran(r, "Render")

\* C9, amended: the stages of a request run in the order edge read, Fetch,
\* Extract, durable read, Prompt, Model, Repair, durable write, Render, edge
\* write, each at most once; the edge read precedes Fetch, the durable read
\* precedes the model call, the edge write is issued only after Render, and
\* the durable write is issued after Repair, before Render (and without any
\* Render on the /summary/ route).
C9_StageOrder ==
  \A r \in Req :
    /\ Ordered(r, <<"EdgeRead", "Fetch", "Extract", "KvRead", "Prompt", "Model",
                    "Repair", "KvWrite", "Render", "EdgeWrite", "Respond", "Fail">>)
    /\ (IsArticle(r) /\ (pc[r] = "fetch" \/ Ran(r, "Fetch"))) => Ran(r, "EdgeRead")
    /\ Ran(r, "Extract") => Ran(r, "Fetch")
    /\ (pc[r] = "callAI" \/ Ran(r, "Model")) => (Ran(r, "KvRead") /\ Ran(r, "Prompt"))
    /\ Ran(r, "Repair") => Ran(r, "Model")
    /\ Ran(r, "KvWrite") => Ran(r, "Repair")
    /\ Ran(r, "Render") => (IsArticle(r) /\ Ran(r, "KvRead"))
    /\ Ran(r, "EdgeWrite") => Ran(r, "Render")

\* an article request ran every stage, the durable write before Render
C9_Witness ==
  \E r \in Req :
    stages[r] = <<"EdgeRead", "Fetch", "Extract", "KvRead", "Prompt", "Model",
                  "Repair", "KvWrite", "Render", "EdgeWrite", "Respond">>

\* C10, as stated: when the extraction recovers no paragraph the request ends
\* with the diagnostic page, the model is not called and nothing is written to
\* either cache tier.
C10_Original ==
  \A r \in Req :
    (Ran(r, "Extract") /\ loc[r].paragraphs = <<>>) =>
      /\ pc[r] # "callAI"
      /\ ~Ran(r, "Model") /\ ~Ran(r, "KvWrite") /\ ~Ran(r, "EdgeWrite")
      /\ pc[r] = "done" => resp[r].kind = "debug"

C11_FetchMessages == {"fetch failed", "Fetch Exception: HTTP 404"}

C11_FetchStep(r) ==
  (pc[r] = "fetch" /\ pc'[r] # "fetch") =>
    IF loc'[r].res = <<>>
    THEN /\ pc'[r] = "done"
         /\ resp'[r].kind = "debug"
         /\ resp'[r].body.message \in C11_FetchMessages
         /\ loc'[r] = loc[r]
         /\ stages'[r] = stages[r] \o <<"Fetch", "Fail">>
         /\ UNCHANGED << kv, edge, kvPending, edgePending >>
    ELSE /\ pc'[r] = "kvget"
         /\ loc'[r].res \in {out.body : out \in {o \in FetchOutcomes : o.kind = "response" /\ o.ok}}

C12_Original ==
  \A r \in Req :
    (pc[r] = "done" /\ Ran(r, "Model") /\ ~Ran(r, "Repair")) =>
      /\ resp[r].kind = "debug"
      /\ resp[r].body.message \in {"fetch failed", "AI Empty Response", "AI_BLOCK"}

C13_SecretStep(r) ==
  (pc[r] = "secret" /\ pc'[r] = "done") =>
    /\ resp'[r].status = 500
    /\ resp'[r].body.text = "Secret Error: GEMINI_API_KEY binding required."
    /\ resp'[r].cacheControl = "" /\ resp'[r].cacheStatus = ""
    /\ stages'[r] = <<"Respond">>
    /\ loc'[r] = NoLocals
    /\ UNCHANGED << kv, edge, kvPending, edgePending >>

\* C13: the credential is retrieved before anything else is done for the
\* request; when the retrieval fails the request is answered at once with
\* status 500 and the fixed message, and nothing was fetched, read from a
\* cache or written to a cache for it, on the /article/ and on the /summary/
\* route alike.
C13_ConfigurationError ==
  /\ [][\A r \in Req : C13_SecretStep(r)]_vars
  /\ [](\A r \in Req :
          /\ pc[r] = "secret" => (stages[r] = <<>> /\ loc[r] = NoLocals)
          /\ (pc[r] = "done" /\ stages[r] = <<"Respond">>) =>
               (resp[r].status = 500 /\ loc[r] = NoLocals))

\* an /article/ and a /summary/ request were both answered with status 500
C13_Witness ==
  \E r, q \in Req :
    /\ pc[r] = "done" /\ resp[r].status = 500 /\ IsArticle(r)
    /\ pc[q] = "done" /\ resp[q].status = 500 /\ ~IsArticle(q)

\* raw model texts with no usable line: empty, blank lines, markers only,
\* short prose
C19_RawTexts ==
  { <<>>, <<"\n", "\n">>, <<"-", " ", "\n", "*", " ", "1", ".">>,
    <<"o", "k">>, RawDegenerate }

C19_RepairStep(r) ==
  (pc[r] = "callAI" /\ pc'[r] = "done" /\ "Repair" \in Range(stages'[r])) =>
    LET points == ParseSummary(loc'[r].rawAIResponse)
    IN  /\ loc'[r].summaryPoints = points
        /\ resp'[r].status = 200
        /\ IF IsArticle(r)
           THEN /\ resp'[r].kind = "article"
                /\ resp'[r].body.summary_points = points
           ELSE /\ resp'[r].kind = "summary"
                /\ resp'[r].body.json = JsonStringify(points)

\* C19: the list repair yields a sequence, possibly empty, for every raw text,
\* and a request whose model call returned a text returns its normal result,
\* the rendered article or the summary payload with the repaired points (none
\* when the sequence is empty), never the diagnostic page.
C19_RepairNeverFails ==
  /\ [](\A raw \in C19_RawTexts : ParseSummary(raw) = <<>>)
  /\ [](\A r \in Req : Ran(r, "Repair") => Served(r))
  /\ [][\A r \in Req : C19_RepairStep(r)]_vars

\* an article and a summary payload were returned with zero summary items
C19_Witness ==
  \E r, q \in Req :
    /\ Served(r) /\ Ran(r, "Repair") /\ IsArticle(r)
    /\ resp[r].body.summary_points = <<>>
    /\ Served(q) /\ Ran(q, "Repair") /\ ~IsArticle(q)
    /\ resp[q].body.json = <<"[", "]">>

\* what is left of each line of RepairLines once its leading run of marker
\* characters and the white space around it are taken off
C18_Cleaned ==
  << <<"f", "i", "r", "s", "t", " ", "p", "o", "i", "n", "t">>,
     <<"s", "e", "c", "o", "n", "d", " ", "p", "o", "i", "n", "t">>,
     <<"t", "h", "i", "r", "d">>,
     <<"s", "h", "o", "r", "t">>,
     <<"s", "i", "x", "t", "h", "!">>,
     <<"v", "o", "t", "e", "r", "s">>,
     <<>> >>

C18_CleanedLines == [i \in DOMAIN repair.lines |-> C18_Cleaned[repair.lines[i]]]

C18_AtLeastFive(l) == Len(l) >= 5

C18_MoreThanFive(l) == Len(l) > 5

\* C18, as stated: the lines shorter than five characters are discarded, and
\* the result for "- first point\n* second point\n1. third\nshort" is
\* ["first point", "second point", "third"].
C18_Original ==
  repair.done =>
    /\ repair.points = SelectSeq(C18_CleanedLines, C18_AtLeastFive)
    /\ repair.raw = RawList =>
         repair.points = << C18_Cleaned[1], C18_Cleaned[2], C18_Cleaned[3] >>

\* C18, amended: the raw text is split on line breaks, each line loses its
\* leading run of marker characters (bullet glyph, dash, asterisk, digit, dot,
\* white space) and the white space around it, the lines of five characters or
\* fewer are discarded and the others are returned in their order; for
\* "- first point\n* second point\n1. third\nshort" the result is
\* ["first point", "second point"].
C18_ListRepair ==
  repair.done =>
    /\ repair.points = SelectSeq(C18_CleanedLines, C18_MoreThanFive)
    /\ repair.raw = RawList =>
         repair.points = << C18_Cleaned[1], C18_Cleaned[2] >>

\* the repair of the four-line example is done: "third" and "short" are gone
C18_Witness ==
  /\ repair.done
  /\ repair.raw = RawList
  /\ repair.lines = <<1, 2, 3, 4>>
  /\ Len(repair.points) = 2

\* C14, as stated: a listing request never reads or writes the edge tier, and
\* the listing it returns was made by fetching every configured source anew.
C14_Original ==
  (feedPc = "done" /\ feedResp.kind = "home") =>
    /\ edge = <<>> /\ edgePending = {}
    /\ feedOrigin = Source

\* the cards each source contributes: source, title and time stamp
C15_Cards ==
  << { <<"RFI", <<"R", "a", "i", "n">>, 300000>>, <<"RFI", <<"W", "i", "n", "d">>, 60000>> },
     { <<"BBC", <<"S", "n", "o", "w">>, 180000>>, <<"BBC", <<"N", "o", " ", "T", "i", "t", "l", "e">>, 0>> },
     { <<"RFA", <<"H", "a", "i", "l">>, 300000>> },
     { <<"Epoch", <<"F", "o", "g">>, NaN>> },
     { <<"VOA", <<"D", "e", "w">>, 240000>> } >>

\* the time stamp a card is ordered by: none and NaN count as 0
C15_Time(card) == IF card.timestamp > 0 THEN card.timestamp ELSE 0

\* C15: the listing request that got past the credential answers with the
\* rendered listing, status 200, whatever sources failed; its cards are exactly
\* the cards of the sources whose fetch did not fail, and they are in order of
\* non-increasing time stamp.
C15_AggregationIsolatesFailures ==
  (feedPc = "done" /\ feedResults # <<>>) =>
    LET cards == feedResp.body
        good == {i \in Source : ~feedResults[i].failed}
        expected == UNION {C15_Cards[i] : i \in good}
    IN  /\ feedResp.kind = "home" /\ feedResp.status = 200
        /\ {<<cards[k].source, cards[k].title, cards[k].timestamp>> : k \in DOMAIN cards}
             = expected
        /\ Len(cards) = Cardinality(expected)
        /\ \A k \in DOMAIN cards :
             k < Len(cards) => C15_Time(cards[k]) >= C15_Time(cards[k + 1])

\* the fetch of exactly one source was rejected, the others gave their feed
C15_Witness ==
  /\ feedPc = "done" /\ feedResp.kind = "home"
  /\ \E i \in Source :
       /\ feedResults[i].failed /\ feedResults[i].items = <<>>
       /\ \A j \in Source \ {i} : ~feedResults[j].failed
  /\ Len(feedResp.body) >= 5

\* C16, as stated: when the fetch of the image returns status 200, the
\* response of the proxy carries the immutable long-lived cache directive and
\* no Set-Cookie header, whatever headers the upstream sent.
C16_Original ==
  (imgPc = "done" /\ imgUpstream.kind = "response" /\ imgUpstream.status = 200) =>
    /\ imgResp.status = 200
    /\ "cache-control" \in DOMAIN imgResp.headers
    /\ imgResp.headers["cache-control"] = "public, max-age=31536000, immutable"
    /\ "set-cookie" \notin DOMAIN imgResp.headers

\* C17, as stated: when the fetch of the image throws or returns a status
\* other than 200, the proxy answers 404 and the response carries no header
\* that enables caching.
C17_Original ==
  (imgPc = "done"
     /\ (imgUpstream.kind = "throw"
           \/ (imgUpstream.kind = "response" /\ imgUpstream.status # 200))) =>
    /\ imgResp.status = 404
    /\ "cache-control" \in DOMAIN imgResp.headers =>
         imgResp.headers["cache-control"] = "no-store"

\* C20, as stated: the candidate is the text from the first "{" to the last
\* "}" of the raw model text, and whenever the raw text has no braces the
\* request ends with the diagnostic page for a parse error and no page is
\* rendered or cached.
C20_Original ==
  objPc = "done" =>
    LET raw == objLoc.rawAIResponse
        first == IndexOf(raw, "{")
        last == LastIndexOf(raw, "}")
    IN  /\ (first # 0 /\ last # 0 /\ first < last) =>
             objLoc.cleaned = SubSeq(raw, first, last)
        /\ ("{" \notin Range(raw) /\ "}" \notin Range(raw)) =>
             /\ objResp.kind = "debug"
             /\ objResp.body.message = "SyntaxError"
             /\ objPut = {}


\* C24: the durable key is computed from the source URL alone: two requests
\* that name the same host and path, whatever their routes, compute the same
\* key, and a request that finds an entry under its key returns the stored
\* summary without calling the model, whichever route wrote it.
C24_HitStep(r) ==
  (pc[r] = "kvget" /\ pc'[r] # "kvget" /\ loc[r].kvKey \in DOMAIN kv) =>
    /\ pc'[r] = "done"
    /\ ~("Model" \in Range(stages'[r]))
    /\ loc'[r].summaryPoints = JsonParse(kv[loc[r].kvKey].value)

C24_KeyIgnoresRoute ==
  /\ [](\A r, q \in Req :
          (loc[r].kvKey # <<>> /\ loc[q].kvKey # <<>>
             /\ SourceOf(req[r].path) = SourceOf(req[q].path)) =>
            loc[r].kvKey = loc[q].kvKey)
  /\ [][\A r \in Req : C24_HitStep(r)]_vars

\* an /article/ request is answered from the entry a /summary/ request wrote
C24_Witness ==
  \E r, q \in Req :
    /\ IsArticle(r) /\ ~IsArticle(q) /\ req[q].path # <<>>
    /\ SourceOf(req[r].path) = SourceOf(req[q].path)
    /\ Ran(q, "KvWrite")
    /\ pc[r] = "done" /\ Ran(r, "KvRead") /\ ~Ran(r, "Model")
    /\ resp[r].kind = "article"
    /\ resp[r].body.summary_points = loc[q].summaryPoints
    /\ loc[q].summaryPoints # <<>>

\* C28: an /article/ request that misses the edge cache and renders issues
\* exactly one cache.put, under the key of its lookup, and returns in the same
\* step with the write still in flight; the runtime carrying the write out,
\* the rendered response becomes the edge entry of that key at some later
\* time, and a request whose lookup finds an entry is answered as a hit.
C28_RenderStep(r) ==
  (pc[r] # "done" /\ pc'[r] = "done" /\ resp'[r].kind = "article"
     /\ resp'[r].cacheStatus # "HIT") =>
    /\ Ran(r, "EdgeRead")
    /\ ~EdgeHit(CacheKey(req[r])) \/ pc[r] # "match"
    /\ edgePending' =
         edgePending \cup {[key |-> CacheKey(req[r]), response |-> resp'[r]]}
    /\ edge' = edge

C28_LookupStep(r) ==
  (pc[r] = "match" /\ pc'[r] # "match" /\ CacheKey(req[r]) \in DOMAIN edge) =>
    /\ pc'[r] = "done"
    /\ resp'[r] = [edge[CacheKey(req[r])].response EXCEPT !.cacheStatus = "HIT"]

C28_Rendered(r) ==
  pc[r] = "done" /\ resp[r].kind = "article" /\ resp[r].cacheStatus # "HIT"

C28_Scheduled(r) ==
  IF C28_Rendered(r)
  THEN [key |-> CacheKey(req[r]), response |-> resp[r]] \in edgePending
  ELSE FALSE

C28_Stored(r) ==
  IF C28_Rendered(r) /\ CacheKey(req[r]) \in DOMAIN edge
  THEN edge[CacheKey(req[r])].response = resp[r]
  ELSE FALSE

C28_EdgeWriteAfter ==
  /\ [][\A r \in Req : C28_RenderStep(r) /\ C28_LookupStep(r)]_vars
  /\ \A r \in Req : C28_Scheduled(r) ~> C28_Stored(r)

\* a request has rendered and returned while its write is in flight and the
\* edge cache has no entry for its key
C28_Witness ==
  \E r \in Req : C28_Scheduled(r) /\ ~(CacheKey(req[r]) \in DOMAIN edge)

\* C29, as stated: the durable key of every request is a suffix of the base64
\* form of its source URL and every key has the same length, 64.
C29_Original ==
  \A r \in Req :
    loc[r].kvKey # <<>> =>
      LET b64 == btoa(loc[r].targetUrl)
      IN  /\ SubSeq(b64, Len(b64) - Len(loc[r].kvKey) + 1, Len(b64)) = loc[r].kvKey
          /\ Len(loc[r].kvKey) = 64

\* C29: the durable key of every request is a suffix of the base64 form of
\* its source URL and is never longer than 64 characters; it is the last 64
\* characters of that form when the form has at least 64, and the whole form,
\* shorter than 64 characters, otherwise.
C29_KeyLength ==
  \A r \in Req :
    loc[r].kvKey # <<>> =>
      LET b64 == btoa(loc[r].targetUrl)
          key == loc[r].kvKey
      IN  /\ Len(key) <= 64
          /\ SubSeq(b64, Len(b64) - Len(key) + 1, Len(b64)) = key
          /\ Len(b64) >= 64 => Len(key) = 64
          /\ Len(b64) < 64 => key = b64

\* one request holds a key of 64 characters cut from a longer form, another
\* holds a whole form shorter than 64 characters
C29_Witness ==
  \E r, q \in Req :
    /\ Len(loc[r].kvKey) = 64 /\ Len(btoa(loc[r].targetUrl)) > 64
    /\ loc[q].kvKey # <<>> /\ Len(loc[q].kvKey) < 64

\* C30: the base64 forms of two source URLs ending in the same 64 characters,
\* the two requests hold the same durable key, and forms that differ in their
\* last 64 characters give different keys; a request that finds an entry
\* under its key returns the stored summary without calling the model,
\* whatever URL the entry was written for.
C30_Last(b64) == SubSeq(b64, IF Len(b64) > 64 THEN Len(b64) - 63 ELSE 1, Len(b64))

C30_HitStep(r) ==
  (pc[r] = "kvget" /\ pc'[r] # "kvget" /\ loc[r].kvKey \in DOMAIN kv) =>
    /\ pc'[r] = "done"
    /\ ~("Model" \in Range(stages'[r]))
    /\ kvPending' = kvPending
    /\ resp'[r].kind = "summary"
    /\ resp'[r].body.json = kv[loc[r].kvKey].value

C30_KeyCollision ==
  /\ [](\A r, q \in Req :
          (loc[r].kvKey # <<>> /\ loc[q].kvKey # <<>>) =>
            (loc[r].kvKey = loc[q].kvKey
               <=> C30_Last(btoa(loc[r].targetUrl)) = C30_Last(btoa(loc[q].targetUrl))))
  /\ [][\A r \in Req : C30_HitStep(r)]_vars

\* a request for one URL is answered, without the model, with the summary a
\* request for another URL wrote
C30_Witness ==
  \E r, q \in Req :
    /\ loc[r].targetUrl # loc[q].targetUrl
    /\ loc[r].kvKey = loc[q].kvKey
    /\ Ran(q, "KvWrite")
    /\ pc[r] = "done" /\ Ran(r, "KvRead") /\ ~Ran(r, "Model")
    /\ resp[r].kind = "summary"
    /\ resp[r].body.json = JsonStringify(loc[q].summaryPoints)

\* C25: the paragraphs an extraction keeps are, in page order and with
\* repetitions, the trimmed texts of the p chunks whose trimmed length is
\* more than 15; each of them is trimmed and longer than 15 characters.
C25_Long(ev) == ev.tag = "p" /\ Len(Trim(ev.text)) > 15

C25_ParagraphInclusion ==
  extraction.done =>
    LET long == SelectSeq(extraction.events, C25_Long)
    IN  /\ extraction.paragraphs = [i \in DOMAIN long |-> Trim(long[i].text)]
        /\ \A i \in DOMAIN extraction.paragraphs :
             /\ Len(extraction.paragraphs[i]) > 15
             /\ Trim(extraction.paragraphs[i]) = extraction.paragraphs[i]

\* a page with the same long paragraph twice, surrounded by white space, and a
\* paragraph of exactly 15 characters: the first two are kept, trimmed
C25_Witness ==
  /\ extraction.done
  /\ Len(extraction.events) = 3
  /\ \A i \in 1..3 : extraction.events[i].tag = "p"
  /\ extraction.events[1] = extraction.events[2]
  /\ Trim(extraction.events[1].text) # extraction.events[1].text
  /\ Len(extraction.events[3].text) = 15
  /\ Len(extraction.paragraphs) = 2
  /\ extraction.paragraphs[1] = extraction.paragraphs[2]

\* C26, as stated: the social image is the content of the first meta element
\* of the page whose property, or else name, is og:image or twitter:image and
\* that has a content; later ones do not replace it; and when there is one
\* the image of the result is the social image.
C26_Social(ev) ==
  /\ ev.tag = "meta"
  /\ ev.content # <<>>
  /\ OrElse(ev.property, ev.name) \in
       { OgImage, <<"t", "w", "i", "t", "t", "e", "r", ":", "i", "m", "a", "g", "e">> }

C26_Original ==
  extraction.done =>
    LET social == SelectSeq(extraction.events, C26_Social)
    IN  social # <<>> =>
          /\ extraction.socialImg = social[1].content
          /\ extraction.image = social[1].content

\* C27, as stated: the fallback image is the source of the first img element
\* that has a src or data-src which is not a data: URI; an img is passed over
\* only when neither attribute is such a URL.
C27_Url(u) == u # <<>> /\ ~StartsWith(u, <<"d", "a", "t", "a", ":">>)

C27_Usable(ev) == ev.tag = "img" /\ (C27_Url(ev.src) \/ C27_Url(ev.dataSrc))

C27_Original ==
  extraction.done =>
    LET usable == SelectSeq(extraction.events, C27_Usable)
    IN  IF usable = <<>> THEN extraction.firstBodyImg = <<>>
        ELSE extraction.firstBodyImg =
               (IF C27_Url(usable[1].src) THEN usable[1].src ELSE usable[1].dataSrc)

\* C21: within one extraction pass the ids emitted are pairwise distinct, the
\* table urlMap is only ever appended to, so that it is at every moment the
\* list of the ids emitted with the URLs recorded at emission, and in the
\* article rendered every string of data that is an emitted id appears as the
\* URL recorded when that id was emitted.
RECURSIVE C21_Resolved(_, _)
C21_Resolved(a, b) ==
  IF a.type = "string"
  THEN \A i \in DOMAIN placeholder.emitted :
         placeholder.emitted[i].key = a.str =>
           b = [type |-> "string", str |-> placeholder.emitted[i].value]
  ELSE IF a.type = "array"
  THEN /\ b.type = "array"
       /\ Len(b.items) = Len(a.items)
       /\ \A i \in DOMAIN a.items : C21_Resolved(a.items[i], b.items[i])
  ELSE IF a.type = "object"
  THEN /\ b.type = "object"
       /\ Len(b.members) = Len(a.members)
       /\ \A i \in DOMAIN a.members : C21_Resolved(a.members[i].val, b.members[i].val)
  ELSE TRUE

C21_Holds ==
  /\ \A i, j \in DOMAIN placeholder.emitted :
       i # j => placeholder.emitted[i].key # placeholder.emitted[j].key
  /\ placeholder.urlMap = placeholder.emitted
  /\ placeholder.resp.kind = "article" =>
       C21_Resolved(placeholder.data, placeholder.resp.value)

C21_Step ==
  /\ Len(placeholder'.urlMap) >= Len(placeholder.urlMap)
  /\ SubSeq(placeholder'.urlMap, 1, Len(placeholder.urlMap)) = placeholder.urlMap
  /\ C21_Holds'

C21_RoundTrip == [][C21_Step]_vars

\* twelve ids were emitted, and the answer names the first and the twelfth
C21_Witness ==
  /\ placeholder.resp.kind = "article"
  /\ Len(placeholder.emitted) >= 12
  /\ placeholder.data.type = "object"
  /\ \E i, j \in DOMAIN placeholder.data.members :
       /\ placeholder.data.members[i].val = [type |-> "string", str |-> ImgId(12)]
       /\ placeholder.resp.value.members[i].val =
            [type |-> "string", str |-> placeholder.emitted[12].value]
       /\ placeholder.data.members[j].val.type = "array"
       /\ placeholder.data.members[j].val.items # <<>>
       /\ placeholder.data.members[j].val.items[1] = [type |-> "string", str |-> ImgId(1)]
       /\ placeholder.resp.value.members[j].val.items[1] =
            [type |-> "string", str |-> placeholder.emitted[1].value]

\* C22: the value rendered has the structure of data, the same keys in the
\* same order and sequences of the same lengths, and at every depth a string
\* that is exactly a key of urlMap is replaced by its URL while every other
\* string, every key and every other scalar is as in data.
RECURSIVE C22_Same(_, _)
C22_Same(a, b) ==
  IF a.type = "string"
  THEN /\ b.type = "string"
       /\ IF \E i \in DOMAIN placeholder.urlMap : placeholder.urlMap[i].key = a.str
          THEN \A i \in DOMAIN placeholder.urlMap :
                 placeholder.urlMap[i].key = a.str => b.str = placeholder.urlMap[i].value
          ELSE b.str = a.str
  ELSE IF a.type = "array"
  THEN /\ b.type = "array"
       /\ Len(b.items) = Len(a.items)
       /\ \A i \in DOMAIN a.items : C22_Same(a.items[i], b.items[i])
  ELSE IF a.type = "object"
  THEN /\ b.type = "object"
       /\ Len(b.members) = Len(a.members)
       /\ \A i \in DOMAIN a.members :
            /\ b.members[i].key = a.members[i].key
            /\ C22_Same(a.members[i].val, b.members[i].val)
  ELSE b = a

C22_Resolver ==
  placeholder.resp.kind = "article" =>
    C22_Same(placeholder.data, placeholder.resp.value)

\* an answer with a key that is an id, an id two levels down and an id that
\* was never emitted, rendered with two or more ids in the table
C22_Witness ==
  /\ placeholder.resp.kind = "article"
  /\ Len(placeholder.urlMap) >= 2
  /\ placeholder.data.type = "object"
  /\ \E i, j, k \in DOMAIN placeholder.data.members :
       /\ placeholder.data.members[i].key = ImgId(1)
       /\ placeholder.resp.value.members[i].key = ImgId(1)
       /\ placeholder.resp.value.members[i].val.str = placeholder.urlMap[1].value
       /\ placeholder.data.members[j].val = [type |-> "string", str |-> ImgId(99)]
       /\ placeholder.resp.value.members[j].val = [type |-> "string", str |-> ImgId(99)]
       /\ placeholder.data.members[k].val.type = "array"
       /\ Len(placeholder.data.members[k].val.items) = 6
       /\ placeholder.resp.value.members[k].val.items[1].items[1].str =
            placeholder.urlMap[2].value
       /\ placeholder.resp.value.members[k].val.items[1].items[2].members[1].val.str =
            placeholder.urlMap[1].value

\* C23, as stated: every line of the payload of the prompt that carries an
\* id is the line that extraction wrote, with its id in full, and never the
\* beginning of one.
C23_Original ==
  placeholder.pc \in {"callAI", "done"} =>
    \A i \in DOMAIN placeholder.payload :
      (/\ Len(placeholder.payload[i].text) > 7
       /\ SubSeq(placeholder.payload[i].text, 1, 7) = <<"[", "I", "M", "G", "]", ":", " ">>)
        => placeholder.payload[i] = placeholder.output[i]

\* C31, as stated: a listing request that has been answered was answered
\* with a rendered listing, never with an error.
C31_Original ==
  feedPc = "done" => feedResp.kind = "home"

\* C31: no response exists while the fetch of any source has not settled and
\* the response is produced by a step taken when all have settled; once the
\* fan-out has started the request is never answered with an error; and when
\* every fetch eventually settles, the fan-out leads to a rendered listing.
\* The credential is read before the dispatch, and a request whose
\* credential cannot be read is answered with the configuration error.
C31_JoinStep ==
  (feedResp' # feedResp /\ feedResp'.kind # "none") =>
    \/ /\ feedPc = "fanout"
       /\ \A i \in Source : feedResults[i].settled
       /\ feedResp'.kind = "home" /\ feedResp'.status = 200
    \/ /\ feedPc = "secret"
       /\ feedResults = <<>>
       /\ feedResp' = SecretError

C31_Waiting ==
  (feedPc = "fanout" /\ \E i \in Source : ~feedResults[i].settled) =>
    feedResp = NoResponse

C31_ListingJoin ==
  /\ [][C31_JoinStep]_vars
  /\ []C31_Waiting
  /\ [](feedPc = "done" /\ feedResults # <<>> => feedResp.kind = "home")
  /\ (feedPc = "fanout") ~> (feedPc = "done" /\ feedResp.kind = "home")

\* a listing was rendered after every source had settled, one by a rejection,
\* one by an error page, the others with their feeds
C31_Witness ==
  /\ feedPc = "done" /\ feedResp.kind = "home" /\ feedResp.status = 200
  /\ \A i \in Source : feedResults[i].settled
  /\ \E i, j \in Source :
       /\ i # j
       /\ feedResults[i].failed /\ i \notin DOMAIN cf
       /\ ~feedResults[j].failed /\ feedResults[j].items # <<>>

\* C32: every URL recorded in urlMap begins with /image/ and is therefore no
\* key of urlMap, and applying mapBack to the value already resolved for the
\* article gives that value again.
C32_Idempotent ==
  /\ \A i \in DOMAIN placeholder.urlMap :
       /\ StartsWith(placeholder.urlMap[i].value, ImagePrefix)
       /\ \A j \in DOMAIN placeholder.urlMap :
            placeholder.urlMap[i].value # placeholder.urlMap[j].key
  /\ placeholder.resp.kind = "article" =>
       mapBack(placeholder.resp.value, placeholder.urlMap) = placeholder.resp.value

\* a page whose first image has the relative URL I2, with a second image, and
\* an answer in which I1 was resolved
C32_Witness ==
  /\ placeholder.resp.kind = "article"
  /\ Len(placeholder.urlMap) >= 2
  /\ placeholder.urlMap[1] = [key |-> ImgId(1), value |-> ImagePrefix \o ImgId(2)]
  /\ placeholder.urlMap[2].key = ImgId(2)
  /\ placeholder.data.type = "array"
  /\ placeholder.data.items[1] = [type |-> "string", str |-> ImgId(1)]
  /\ placeholder.resp.value.items[1] = [type |-> "string", str |-> ImagePrefix \o ImgId(2)]
=============================================================================
